---- MODULE Spec2Model ----
(***************************************************************************)
(* Control plane of lifetech4cloud: wallet ledger, worker callbacks with   *)
(* signed requests, session state machine and purchase orchestration.      *)
(*                                                                         *)
(* Every request handler is written as an operator that maps the current   *)
(* database (a record of the tables) and a request to its outcome: the     *)
(* database it commits, the HTTP response, the events it publishes and the *)
(* job POSTs it sends.  The actions apply these operators.                 *)
(***************************************************************************)
EXTENDS Integers, Sequences, FiniteSets, TLC

VARIABLES
    coins,      \* users.coins, the legacy balance column          [user -> Int]
    wallet,     \* wallets rows: balance by user_id     [subset of users -> Int]
    ledger,     \* ledger_entries, in insertion order
    sessions,   \* vps_sessions rows, a session's id is its index
    workers,    \* workers rows                                 [worker -> row]
    tokens,     \* admin_tokens rows                             [token -> row]
    resp,       \* the response of the last request handled
    published,  \* the events the last request published on the SessionEventBus
    posted,     \* the job POSTs the last request sent to workers
    tx,         \* concurrent adjust_balance calls: each call's transaction
    locks,      \* row locks on wallets rows held by open transactions
    pur,        \* concurrent purchase requests: each request's position
    subscribers,\* event bus: the queues registered for each session (or thread)
    queues,     \* the asyncio queues that subscribe created: maxsize and items
    busop,      \* the last call of the event bus that returned
    streams,    \* the open streaming responses, by the queue each reads
    pending,    \* result callbacks that have committed and are publishing
    products,   \* vps_products rows with their worker pools, by product id
    dispatcher, \* a WorkerDispatcher: its lock and the dispatch_job calls on it
    ads,        \* an AdsNonceManager, its stores and the clock it reads
    support     \* support threads: their rows and the record of what was published

\* The process-wide objects outside the database.
busvars == <<subscribers, queues, busop, streams, pending, dispatcher, ads, support>>

vars == <<coins, wallet, ledger, sessions, workers, tokens, products, resp, published, posted,
          tx, locks, pur, busvars>>

dbvars == <<coins, wallet, ledger, sessions, workers, tokens, products>>

----------------------------------------------------------------------------
(* Bounds of the model *)

MaxSessions == 2
MaxLedger == 3
MaxJobs == 2

(* Program constants *)

CLOCK_SKEW_SECONDS == 300

ACTIVE_STATUSES == {"pending", "provisioning", "ready"}

----------------------------------------------------------------------------
(* The data the requests are drawn from *)

None == "none"

Users == {"u1", "u2"}
WorkerIds == {"w1", "w2"}
TokenIds == {"t1", "t2"}
ProductIds == {"p1", "p2"}
Keys == {"k1", "k2"}

\* vps_products rows: price_coins and the assigned worker pool.
Products ==
    [p1 |-> [price_coins |-> 1, workers |-> {"w1", "w2"}],
     p2 |-> [price_coins |-> 2, workers |-> {"w2"}]]

\* The secret each worker process signs its callbacks with.
ClientSecret == [w1 |-> "s1", w2 |-> "s2"]

InitCoins == [u1 |-> 3, u2 |-> 1]

Cur ==
    [coins |-> coins, wallet |-> wallet, ledger |-> ledger,
     sessions |-> sessions, workers |-> workers, tokens |-> tokens,
     products |-> products]

Get(doc, k) == IF k \in DOMAIN doc THEN doc[k] ELSE None

RECURSIVE SumAmounts(_)
SumAmounts(s) == IF s = <<>> THEN 0 ELSE Head(s).amount + SumAmounts(Tail(s))

EntriesOf(l, u) == SelectSeq(l, LAMBDA e : e.user_id = u)

----------------------------------------------------------------------------
(* WalletService *)

\* _get_wallet: the wallets row of the user, if there is one.
HasWallet(d, u) == u \in DOMAIN d.wallet

\* get_balance: the wallet balance, or the legacy coins without a wallet row.
GetBalance(d, u) == IF HasWallet(d, u) THEN d.wallet[u] ELSE d.coins[u]

\* A ledger_entries row; ref_id 0 is no reference, meta is the entry's reason.
LedgerEntry(u, type, amount, after, ref, meta) ==
    [user_id |-> u, type |-> type, amount |-> amount, balance_after |-> after,
     ref_id |-> ref, meta |-> meta]

\* adjust_balance without its check of the new balance.
AdjustBalanceUnchecked(d, u, amount, type, ref, meta) ==
    LET seed_balance == IF HasWallet(d, u) THEN d.wallet[u] ELSE d.coins[u]
        new_balance == seed_balance + amount
    IN  [ok |-> TRUE,
         db |-> [d EXCEPT !.wallet = (u :> new_balance) @@ d.wallet,
                          !.coins[u] = new_balance,
                          !.ledger = Append(d.ledger,
                              LedgerEntry(u, type, amount, new_balance, ref, meta))],
         balance |-> new_balance]

\* adjust_balance whose ledger entry records the balance before the change.
AdjustBalanceStaleEntry(d, u, amount, type, ref, meta) ==
    LET seed_balance == IF HasWallet(d, u) THEN d.wallet[u] ELSE d.coins[u]
        new_balance == seed_balance + amount
    IN  IF new_balance < 0
        THEN [ok |-> FALSE, db |-> d, balance |-> seed_balance]
        ELSE [ok |-> TRUE,
              db |-> [d EXCEPT !.wallet = (u :> new_balance) @@ d.wallet,
                               !.coins[u] = new_balance,
                               !.ledger = Append(d.ledger,
                                   LedgerEntry(u, type, amount, seed_balance, ref, meta))],
              balance |-> new_balance]

\* adjust_balance with the writes placed before the check of the new balance.
AdjustBalanceLateCheck(d, u, amount, type, ref, meta) ==
    LET r == AdjustBalanceUnchecked(d, u, amount, type, ref, meta)
    IN  [r EXCEPT !.ok = r.balance >= 0]

\* adjust_balance that leaves the user's legacy coins field as it was.
AdjustBalanceNoSync(d, u, amount, type, ref, meta) ==
    LET seed_balance == IF HasWallet(d, u) THEN d.wallet[u] ELSE d.coins[u]
        d1 == IF HasWallet(d, u) THEN d
              ELSE [d EXCEPT !.wallet = (u :> seed_balance) @@ d.wallet]
        new_balance == seed_balance + amount
    IN  IF new_balance < 0
        THEN [ok |-> FALSE, db |-> d1, balance |-> seed_balance]
        ELSE [ok |-> TRUE,
              db |-> [d1 EXCEPT !.wallet[u] = new_balance,
                                !.ledger = Append(d1.ledger,
                                    LedgerEntry(u, type, amount, new_balance, ref, meta))],
              balance |-> new_balance]

\* adjust_balance up to its flush: ok is FALSE when it raises "Insufficient
\* balance"; db is then the session's pending state (a wallet row that was
\* created and flushed before the check stays pending until the caller's
\* rollback).
AdjustBalance(d, u, amount, type, ref, meta) ==
    LET seed_balance == IF HasWallet(d, u) THEN d.wallet[u] ELSE d.coins[u]
        d1 == IF HasWallet(d, u) THEN d
              ELSE [d EXCEPT !.wallet = (u :> seed_balance) @@ d.wallet]
        new_balance == seed_balance + amount
    IN  IF new_balance < 0
        THEN [ok |-> FALSE, db |-> d1, balance |-> seed_balance]
        ELSE [ok |-> TRUE,
              db |-> [d1 EXCEPT !.wallet[u] = new_balance,
                                !.coins[u] = new_balance,
                                !.ledger = Append(d1.ledger,
                                    LedgerEntry(u, type, amount, new_balance, ref, meta))],
              balance |-> new_balance]

\* A row lock on the wallets row of a user, held by an open transaction.
RowLock(u, c) == [user |-> u, holder |-> c]

RowLockedByOther(lk, u, c) == \E x \in lk : x.user = u /\ x.holder # c

\* _get_wallet as a plain SELECT, without FOR UPDATE.
GetWalletNoLock(d, lk, u, c) ==
    [waits |-> FALSE,
     found |-> HasWallet(d, u),
     balance |-> IF HasWallet(d, u) THEN d.wallet[u] ELSE 0,
     locks |-> lk]

\* _get_wallet(user_id, lock=True): SELECT ... FOR UPDATE in transaction c.
\* The statement waits while another transaction holds the lock of the row,
\* then returns the committed row and holds its lock; without a committed
\* row it returns None at once and locks nothing.
GetWallet(d, lk, u, c) ==
    [waits |-> HasWallet(d, u) /\ RowLockedByOther(lk, u, c),
     found |-> HasWallet(d, u),
     balance |-> IF HasWallet(d, u) THEN d.wallet[u] ELSE 0,
     locks |-> IF HasWallet(d, u) THEN lk \cup {RowLock(u, c)} ELSE lk]

\* The wallets table holds one row per user: the INSERT of a second row for
\* a user fails.
WalletKeyConflict(d, u) == HasWallet(d, u)

----------------------------------------------------------------------------
(* app.security.crypto: worker signatures *)

\* HMAC-SHA256 as an ideal keyed hash: equal tags only for equal key and message.
Hmac(secret, message) == [key |-> secret, msg |-> message]

\* compute_worker_signature: the message is the payload followed by the
\* timestamp string, with nothing between them.
ComputeWorkerSignature(secret, payload, timestamp) == Hmac(secret, payload \o timestamp)

\* verify_worker_signature
VerifyWorkerSignature(secret, payload, timestamp, signature) ==
    ComputeWorkerSignature(secret, payload, timestamp) = signature

----------------------------------------------------------------------------
(* Requests of workers.  A body is a sequence of bytes: a JSON document,   *)
(* possibly followed by further characters; a header is a string (a        *)
(* sequence of characters), the empty string when the header is absent.   *)

DigitVal ==
    ("0" :> 0) @@ ("1" :> 1) @@ ("2" :> 2) @@ ("3" :> 3) @@ ("4" :> 4) @@
    ("5" :> 5) @@ ("6" :> 6) @@ ("7" :> 7) @@ ("8" :> 8) @@ ("9" :> 9)

RECURSIVE DecimalValue(_)
DecimalValue(s) ==
    IF s = <<>> THEN 0
    ELSE 10 * DecimalValue(SubSeq(s, 1, Len(s) - 1)) + DigitVal[s[Len(s)]]

\* _parse_timestamp: float(raw); kind is "number", "nan" or "error" (ValueError).
ParseTimestamp(raw) ==
    IF raw # <<>> /\ \A i \in 1..Len(raw) : raw[i] \in DOMAIN DigitVal
    THEN [kind |-> "number", val |-> DecimalValue(raw)]
    ELSE IF raw = <<"n", "a", "n">>
    THEN [kind |-> "nan", val |-> 0]
    ELSE [kind |-> "error", val |-> 0]

Abs(x) == IF x < 0 THEN -x ELSE x

NoSignature == [key |-> None, msg |-> <<>>]

Reject(code, detail) == [ok |-> FALSE, code |-> code, detail |-> detail]

\* _verify_request without the comparison of the signature.
VerifyRequestUnsigned(d, req) ==
    IF req.wid = None \/ req.ts = <<>> \/ req.sig = NoSignature
    THEN Reject(401, "Missing worker signature headers")
    ELSE IF req.wid \notin DOMAIN d.workers \/ d.workers[req.wid].token_id = None
    THEN Reject(401, "Unknown worker")
    ELSE IF ParseTimestamp(req.ts).kind = "number"
            /\ Abs(req.now - ParseTimestamp(req.ts).val) > CLOCK_SKEW_SECONDS
    THEN Reject(401, "Clock skew too large")
    ELSE [ok |-> TRUE, code |-> 200, detail |-> "ok"]

\* _verify_request: the checks in the order of the code.
VerifyRequest(d, req) ==
    IF req.wid = None \/ req.ts = <<>> \/ req.sig = NoSignature
    THEN Reject(401, "Missing worker signature headers")
    ELSE IF req.wid = "not-a-uuid"
    THEN Reject(400, "Invalid worker id")
    ELSE IF req.wid \notin DOMAIN d.workers \/ d.workers[req.wid].token_id = None
    THEN Reject(401, "Unknown worker")
    ELSE IF d.workers[req.wid].token_id \notin DOMAIN d.tokens
            \/ d.tokens[d.workers[req.wid].token_id].revoked
    THEN Reject(401, "Worker token revoked")
    ELSE LET timestamp_value == ParseTimestamp(req.ts)
             secret == d.tokens[d.workers[req.wid].token_id].secret
         IN  IF timestamp_value.kind = "error"
             THEN Reject(400, "Invalid timestamp")
             ELSE IF timestamp_value.kind = "number"
                     /\ Abs(req.now - timestamp_value.val) > CLOCK_SKEW_SECONDS
             THEN Reject(401, "Clock skew too large")
             ELSE IF ~VerifyWorkerSignature(secret, req.body, req.ts, req.sig)
             THEN Reject(401, "Invalid signature")
             ELSE [ok |-> TRUE, code |-> 200, detail |-> "ok"]

\* A decoder that reads the first document of the body and stops there.
JsonValidPrefix(body) == Len(body) >= 1

\* json.loads of the body: a document followed by anything is no JSON.
JsonValid(body) == Len(body) = 1
JsonLoads(body) == body[1]

----------------------------------------------------------------------------
(* app.api.worker_callbacks: the three callback handlers.  In a payload a  *)
(* session_id n >= 1 is the UUID of the n-th session row, 0 is a falsy     *)
(* value (null, "") and a negative number is a string that is no UUID.     *)

Response(op, code, detail) ==
    [op |-> op, code |-> code, detail |-> detail, sid |-> 0, created |-> FALSE, balance |-> 0]

\* What a handler does: the database it leaves committed, its response, the
\* events it publishes and the job POSTs it sends.
Outcome(d, r, events, jobs) == [db |-> d, resp |-> r, published |-> events, posted |-> jobs]

\* An exception leaves the request's database session uncommitted: get_db
\* closes it, which rolls it back.
Raise(d, op, code, detail) == Outcome(d, Response(op, code, detail), <<>>, <<>>)

Event(sid, name, data) == [session_id |-> sid, event |-> name, data |-> data]

\* _load_session outcome for a payload's session_id
SessionExists(d, sid) == sid \in 1..Len(d.sessions)

\* The mark of a worker_status that compares the counter with zero only.
WorkerStatusMarkNonZero(current_jobs) == IF current_jobs # 0 THEN "busy" ELSE "idle"

WorkerStatusMark(current_jobs) == IF current_jobs > 0 THEN "busy" ELSE "idle"

\* worker_status
WorkerStatus(d, req) ==
    LET v == VerifyRequest(d, req) IN
    IF ~v.ok THEN Raise(d, "status", v.code, v.detail)
    ELSE IF ~JsonValid(req.body) THEN Raise(d, "status", 500, "Internal Server Error")
    ELSE
    LET payload == JsonLoads(req.body)
        worker == d.workers[req.wid]
        current_jobs == IF "current_jobs" \in DOMAIN payload
                        THEN payload.current_jobs ELSE worker.current_jobs
    IN  Outcome([d EXCEPT !.workers[req.wid].current_jobs = current_jobs,
                          !.workers[req.wid].status = WorkerStatusMark(current_jobs)],
                Response("status", 200, "ok"), <<>>, <<>>)

\* The items of a checklist payload cut to the first one.
ChecklistItemsFirstOnly(payload) ==
    IF "items" \in DOMAIN payload /\ payload.items # <<>> THEN <<Head(payload.items)>> ELSE <<>>

\* payload.get("items") or []
ChecklistItems(payload) == IF "items" \in DOMAIN payload THEN payload.items ELSE <<>>

\* worker_checklist
WorkerChecklist(d, req) ==
    LET v == VerifyRequest(d, req) IN
    IF ~v.ok THEN Raise(d, "checklist", v.code, v.detail)
    ELSE IF ~JsonValid(req.body) THEN Raise(d, "checklist", 500, "Internal Server Error")
    ELSE
    LET payload == JsonLoads(req.body) IN
    IF "session_id" \notin DOMAIN payload \/ payload.session_id = 0
    THEN Raise(d, "checklist", 400, "Missing session_id")
    ELSE IF payload.session_id < 0
    THEN Raise(d, "checklist", 500, "Internal Server Error")
    ELSE IF ~SessionExists(d, payload.session_id)
    THEN Raise(d, "checklist", 404, "Session not found")
    ELSE
    LET sid == payload.session_id
        items == ChecklistItems(payload)
    IN  Outcome([d EXCEPT !.sessions[sid].checklist = items],
                Response("checklist", 200, "ok"),
                <<Event(sid, "checklist.update", items)>>, <<>>)

\* The part of worker_result that lowers the calling worker's job counter.
ReleaseWorker(worker) ==
    LET jobs == IF worker.current_jobs # 0
                THEN (IF worker.current_jobs - 1 > 0 THEN worker.current_jobs - 1 ELSE 0)
                ELSE worker.current_jobs
    IN  [worker EXCEPT !.current_jobs = jobs,
                       !.status = IF jobs # 0 THEN "busy" ELSE "idle"]

\* The branch of worker_result without the refund of a failed session.
ResultBranchNoRefund(d, sid, payload) ==
    LET status_value == Get(payload, "status") IN
    IF status_value = "ready"
    THEN [outcome |-> "done",
          db |-> [d EXCEPT !.sessions[sid].status = "ready",
                           !.sessions[sid].rdp_host = Get(payload, "rdp_host")]]
    ELSE IF status_value = "failed"
    THEN [outcome |-> "done", db |-> [d EXCEPT !.sessions[sid].status = "failed"]]
    ELSE [outcome |-> "invalid", db |-> d]

\* The branch of worker_result that takes any other status for a failure.
ResultBranchNoValidation(d, sid, payload) ==
    LET status_value == Get(payload, "status") IN
    IF status_value = "ready"
    THEN [outcome |-> "done",
          db |-> [d EXCEPT !.sessions[sid].status = "ready",
                           !.sessions[sid].rdp_host = Get(payload, "rdp_host")]]
    ELSE [outcome |-> "done", db |-> [d EXCEPT !.sessions[sid].status = "failed"]]

\* The branch of worker_result on the payload's status: the session row (and
\* the refund) it writes; outcome is "invalid" when the status is none of the
\* two and "raised" when adjust_balance raises.
ResultBranch(d, sid, payload) ==
    LET status_value == Get(payload, "status")
        session == d.sessions[sid]
    IN  IF status_value = "ready"
        THEN [outcome |-> "done",
              db |-> [d EXCEPT !.sessions[sid].status = "ready",
                               !.sessions[sid].rdp_host = Get(payload, "rdp_host")]]
        ELSE IF status_value = "failed"
        THEN LET d1 == [d EXCEPT !.sessions[sid].status = "failed"] IN
             IF session.user_id # None /\ session.product_id # None
             THEN LET refund == AdjustBalance(d1, session.user_id,
                                    Products[session.product_id].price_coins,
                                    "vps.refund", sid, "worker_failed")
                  IN  [outcome |-> IF refund.ok THEN "done" ELSE "raised", db |-> refund.db]
             ELSE [outcome |-> "done", db |-> d1]
        ELSE [outcome |-> "invalid", db |-> d]

\* The publishes of worker_result with the ready or failed event first.
ResultEventsOutcomeFirst(d, sid, payload) ==
    LET status == d.sessions[sid].status IN
    <<IF status = "ready"
      THEN Event(sid, "ready", d.sessions[sid].rdp_host)
      ELSE Event(sid, "failed", Get(payload, "message")),
      Event(sid, "status.update", status)>>

\* The publishes of worker_result after its commit, in their order: the
\* status.update with the session's status, then ready with the connection
\* data or failed with the payload's message.
ResultEvents(d, sid, payload) ==
    LET status == d.sessions[sid].status IN
    <<Event(sid, "status.update", status),
      IF status = "ready"
      THEN Event(sid, "ready", d.sessions[sid].rdp_host)
      ELSE Event(sid, "failed", Get(payload, "message"))>>

\* worker_result
WorkerResult(d, req) ==
    LET v == VerifyRequest(d, req) IN
    IF ~v.ok THEN Raise(d, "result", v.code, v.detail)
    ELSE IF ~JsonValid(req.body) THEN Raise(d, "result", 500, "Internal Server Error")
    ELSE
    LET payload == JsonLoads(req.body) IN
    IF "session_id" \notin DOMAIN payload \/ payload.session_id = 0
    THEN Raise(d, "result", 400, "Missing session_id")
    ELSE IF payload.session_id < 0
    THEN Raise(d, "result", 500, "Internal Server Error")
    ELSE IF ~SessionExists(d, payload.session_id)
    THEN Raise(d, "result", 404, "Session not found")
    ELSE
    LET sid == payload.session_id
        branch == ResultBranch(d, sid, payload)
    IN  IF branch.outcome = "invalid" THEN Raise(d, "result", 400, "Invalid status")
        ELSE IF branch.outcome = "raised" THEN Raise(d, "result", 400, "Insufficient balance")
        ELSE
        LET d2 == [branch.db EXCEPT !.workers[req.wid] = ReleaseWorker(@)]
        IN  Outcome(d2, Response("result", 200, "ok"), ResultEvents(d2, sid, payload), <<>>)

----------------------------------------------------------------------------
(* TokenVaultService.revoke_token, behind POST /tokens/{token_id}/revoke.   *)
(* A token row's revoked is the truth value of its revoked_at.              *)

\* The server clock at a revocation.
RevokeClock == {1000, 1001}

\* revoked_at of a token that has not been revoked (NULL).
NotRevoked == 0

AuditEntry(t, before, after) ==
    [action |-> "admin.token.revoke", target_id |-> t, before |-> before, after |-> after]

RevokeOutcome(d, code, detail, audit) ==
    [db |-> d, resp |-> Response("revoke", code, detail), audit |-> audit]

\* revoke_token without the return for a token that is revoked already.
RevokeTokenAgain(d, t, now) ==
    IF t \notin DOMAIN d.tokens THEN RevokeOutcome(d, 404, "Token not found.", <<>>)
    ELSE RevokeOutcome([d EXCEPT !.tokens[t].revoked = TRUE, !.tokens[t].revoked_at = now],
                       200, "ok", <<AuditEntry(t, d.tokens[t].revoked_at, now)>>)

\* revoke_token(token_id) at the server time now: the database it commits,
\* the response and the audit entries it records.
RevokeToken(d, t, now) ==
    IF t \notin DOMAIN d.tokens THEN RevokeOutcome(d, 404, "Token not found.", <<>>)
    ELSE IF d.tokens[t].revoked THEN RevokeOutcome(d, 200, "ok", <<>>)
    ELSE RevokeOutcome([d EXCEPT !.tokens[t].revoked = TRUE, !.tokens[t].revoked_at = now],
                       200, "ok", <<AuditEntry(t, NotRevoked, now)>>)

----------------------------------------------------------------------------
(* WorkerRegistryService and WorkerDispatcher *)

\* _active_session_counts with a filter that keeps the ready sessions only.
ActiveSessionCountReadyOnly(d, w) ==
    Cardinality({i \in 1..Len(d.sessions) :
                    /\ d.sessions[i].worker_id = w
                    /\ d.sessions[i].status = "ready"})

\* _active_session_counts, for one worker
ActiveSessionCount(d, w) ==
    Cardinality({i \in 1..Len(d.sessions) :
                    /\ d.sessions[i].worker_id = w
                    /\ d.sessions[i].status \in ACTIVE_STATUSES})

\* The HTTP exchange of dispatch_job with the worker ends in one of these.
DispatchOutcomes == {"2xx", "3xx", "5xx", "network_error", "timeout"}

\* dispatch_job without raise_for_status: only a failed exchange raises.
DispatchJobOkAnyResponse(outcome) == outcome \in {"2xx", "3xx", "5xx"}

\* dispatch_job returns the response of a 2xx exchange; raise_for_status and
\* the client raise for everything else.
DispatchJobOk(outcome) == outcome = "2xx"

\* The ids of the worker rows that register_worker inserts, in their order.
NewWorkerOrder == <<"w4", "w5">>

\* The outcomes of the health probe: those of an HTTP exchange.
ProbeOutcomes == DispatchOutcomes

RECURSIVE LStrip(_)
LStrip(s) == IF s # <<>> /\ Head(s) = " " THEN LStrip(Tail(s)) ELSE s

RECURSIVE RStrip(_, _)
RStrip(s, ch) ==
    IF s # <<>> /\ s[Len(s)] = ch THEN RStrip(SubSeq(s, 1, Len(s) - 1), ch) ELSE s

\* _normalize_url: raw.strip(), 400 when nothing is left, else rstrip("/").
NormalizeUrl(raw) ==
    LET url == RStrip(LStrip(raw), " ") IN
    IF url = <<>> THEN [ok |-> FALSE, url |-> <<>>] ELSE [ok |-> TRUE, url |-> RStrip(url, "/")]

RegisterOutcome(d, code, detail, probed) ==
    [db |-> d, resp |-> Response("register", code, detail), probed |-> probed]

\* register_worker that inserts the worker before it probes the base URL.
RegisterWorkerUnprobed(d, base_url, max_sessions, probe, id) ==
    RegisterOutcome([d EXCEPT !.workers = (id :> [status |-> "active", max_sessions |-> max_sessions,
                                                  current_jobs |-> 0, token_id |-> None]) @@ @],
                    IF DispatchJobOk(probe) THEN 200 ELSE 400,
                    IF DispatchJobOk(probe) THEN "ok" ELSE "Worker health check failed",
                    <<base_url>>)

\* register_worker(base_url, max_sessions) with the outcome of the GET of
\* <base_url>/health, id being the key of the row it inserts: the database
\* it commits, the response and the URLs it probed.
RegisterWorker(d, base_url, max_sessions, probe, id) ==
    LET n == NormalizeUrl(base_url) IN
    IF ~n.ok THEN RegisterOutcome(d, 400, "base_url required", <<>>)
    ELSE IF ~DispatchJobOk(probe)
    THEN RegisterOutcome(d, 400, "Worker health check failed", <<n.url \o <<"/", "health">>>>)
    ELSE RegisterOutcome([d EXCEPT !.workers =
                             (id :> [status |-> "active", max_sessions |-> max_sessions,
                                     current_jobs |-> 0, token_id |-> None]) @@ @],
                         200, "ok", <<n.url \o <<"/", "health">>>>)

----------------------------------------------------------------------------
(* The session orchestrator's purchase, VpsService.purchase_and_create, as *)
(* section 4.4 of the specification describes it.                          *)

\* Selection policy: the product's assigned workers that are active and
\* below their capacity.
EligibleWorkers(d, p) ==
    {w \in Products[p].workers \cap DOMAIN d.workers :
        /\ d.workers[w].status = "active"
        /\ ActiveSessionCount(d, w) < d.workers[w].max_sessions}

\* The lookup of an earlier session among the sessions still in provisioning.
ExistingSessionProvisioning(d, u, k) ==
    {i \in 1..Len(d.sessions) :
        /\ d.sessions[i].user_id = u /\ d.sessions[i].idempotency_key = k
        /\ d.sessions[i].status = "provisioning"}

\* The lookup of an earlier session of the user with the idempotency key.

ExistingSession(d, u, k) ==
    {i \in 1..Len(d.sessions) :
        d.sessions[i].user_id = u /\ d.sessions[i].idempotency_key = k}

NewSession(u, p, w, k) ==
    [user_id |-> u, product_id |-> p, worker_id |-> w, idempotency_key |-> k,
     status |-> "provisioning", checklist |-> <<>>, rdp_host |-> None]

PurchaseResponse(code, detail, sid, created) ==
    [op |-> "purchase", code |-> code, detail |-> detail, sid |-> sid, created |-> created,
     balance |-> 0]

\* The compensation of a debit that was taken for a job that is not dispatched.
Compensate(d, u, p, reason) ==
    AdjustBalance(d, u, Products[p].price_coins, "vps.refund", 0, reason).db

\* purchase_and_create(user u, product p, idempotency key k), with the worker
\* the selection picks among the eligible ones and the outcome of the
\* dispatch exchange.
Purchase(d, u, p, k, w, outcome) ==
    IF ExistingSession(d, u, k) # {}
    THEN Outcome(d, PurchaseResponse(200, "ok", CHOOSE i \in ExistingSession(d, u, k) : TRUE, FALSE),
                 <<>>, <<>>)
    ELSE
    LET sid == Len(d.sessions) + 1
        debit == AdjustBalance(d, u, -Products[p].price_coins, "vps.purchase", 0, "purchase")
    IN  IF ~debit.ok
        THEN Outcome(d, PurchaseResponse(400, "Insufficient balance", 0, FALSE), <<>>, <<>>)
        ELSE IF EligibleWorkers(debit.db, p) = {}
        THEN Outcome(Compensate(debit.db, u, p, "no_capacity"),
                     PurchaseResponse(409, "NoCapacity", 0, FALSE), <<>>, <<>>)
        ELSE IF ~DispatchJobOk(outcome)
        THEN Outcome(Compensate(debit.db, u, p, "dispatch_failed"),
                     PurchaseResponse(502, "DispatchFailed", 0, FALSE),
                     <<>>, <<[worker_id |-> w, session_id |-> sid]>>)
        ELSE Outcome([debit.db EXCEPT !.sessions = Append(@, NewSession(u, p, w, k))],
                     PurchaseResponse(200, "ok", sid, TRUE),
                     <<>>, <<[worker_id |-> w, session_id |-> sid]>>)

----------------------------------------------------------------------------
(* The requests the environment sends *)

\* The readings of the server clock when a callback is verified.
ServerClock == {1000}

Timestamp(n) ==
    CASE n = 699 -> <<"6", "9", "9">>
      [] n = 700 -> <<"7", "0", "0">>
      [] n = 999 -> <<"9", "9", "9">>
      [] n = 1000 -> <<"1", "0", "0", "0">>
      [] n = 1300 -> <<"1", "3", "0", "0">>
      [] n = 1301 -> <<"1", "3", "0", "1">>

\* A callback as a worker sends it: signed with the worker's secret over the
\* body and the timestamp header it carries.
SignedRequest(w, ts, body) ==
    [wid |-> w, ts |-> ts, body |-> body, now |-> CHOOSE n \in ServerClock : TRUE,
     sig |-> ComputeWorkerSignature(ClientSecret[w], body, ts)]

StatusDocs == {[current_jobs |-> 0], [current_jobs |-> MaxJobs], [net_mbps |-> 1]}

ChecklistDocs ==
    {[session_id |-> i, items |-> it] :
        i \in 1..MaxSessions, it \in {<<>>, <<"a">>, <<"a", "b">>, <<"b", "a">>}}
    \cup {[session_id |-> 1], [session_id |-> 0, items |-> <<"a">>],
          [session_id |-> -1, items |-> <<"a">>], [items |-> <<"a">>]}

ResultDocs ==
    {[session_id |-> i, status |-> st, rdp_host |-> "h1", message |-> "m"] :
        i \in 1..MaxSessions, st \in {"ready", "failed", "provisioning"}}
    \cup {[session_id |-> 1], [session_id |-> 0, status |-> "failed"],
          [session_id |-> -1, status |-> "failed"], [status |-> "failed"]}

Docs(op) ==
    CASE op = "status" -> StatusDocs
      [] op = "checklist" -> ChecklistDocs
      [] op = "result" -> ResultDocs

\* The document of the requests that are sent with a defect: accepted, each
\* of them changes the database.
BaseDoc(op) ==
    CASE op = "status" -> [current_jobs |-> MaxJobs]
      [] op = "checklist" -> [session_id |-> 1, items |-> <<"a">>]
      [] op = "result" -> [session_id |-> 1, status |-> "failed", rdp_host |-> "h1", message |-> "m"]

OtherDoc(op) ==
    CASE op = "status" -> [current_jobs |-> 0]
      [] op = "checklist" -> [session_id |-> 1, items |-> <<"a", "b">>]
      [] op = "result" -> [session_id |-> 1, status |-> "ready", rdp_host |-> "h1", message |-> "m"]

CallbackOps == {"status", "checklist", "result"}

GoodRequests(op) == {SignedRequest(w, Timestamp(1000), <<doc>>) : w \in WorkerIds, doc \in Docs(op)}

DefectiveRequests(op) ==
    UNION {
        LET base == SignedRequest(w, Timestamp(1000), <<BaseDoc(op)>>) IN
        {[base EXCEPT !.wid = None], [base EXCEPT !.ts = <<>>], [base EXCEPT !.sig = NoSignature],
         [base EXCEPT !.wid = "w9"], [base EXCEPT !.wid = "w3"], [base EXCEPT !.wid = "not-a-uuid"],
         [base EXCEPT !.ts = <<"x">>],
         [base EXCEPT !.sig = ComputeWorkerSignature("s9", base.body, base.ts)],
         [base EXCEPT !.body = <<OtherDoc(op)>>],
         [base EXCEPT !.ts = Timestamp(999)],
         SignedRequest(w, Timestamp(1000), <<BaseDoc(op), "1">>)}
        \cup {SignedRequest(w, Timestamp(n), <<BaseDoc(op)>>) : n \in {699, 700, 1300, 1301}}
        : w \in WorkerIds}

Requests(op) == GoodRequests(op) \cup DefectiveRequests(op)

\* X-Timestamp headers around the allowed clock skew, and one that float()
\* parses to a value that is no number.
SkewTimestamps ==
    {Timestamp(n) : n \in {699, 700, 1000, 1300, 1301}} \cup {<<"n", "a", "n">>}

\* Callbacks that their worker signed over the timestamp header they carry.
SkewRequests(op) ==
    {SignedRequest(w, ts, <<BaseDoc(op)>>) : w \in WorkerIds, ts \in SkewTimestamps}

\* Status callbacks that report each job count from one below zero on.
CounterRequests ==
    {SignedRequest(w, Timestamp(1000), <<[current_jobs |-> n]>>) : w \in WorkerIds, n \in -1..MaxJobs}

Handle(d, op, req) ==
    CASE op = "status" -> WorkerStatus(d, req)
      [] op = "checklist" -> WorkerChecklist(d, req)
      [] op = "result" -> WorkerResult(d, req)

AdjustAmounts == {-2, -1, 1, 2}

----------------------------------------------------------------------------
(* SessionEventBus (and SupportEventBus, which has the same code): the      *)
(* subscribers of each session and their asyncio queues.                    *)

MaxQueueItems == 2

StreamSessions == {1, 2}

QueueOrder == <<"q1", "q2", "q3">>

QueueIds == {QueueOrder[i] : i \in 1..Len(QueueOrder)}

Events == {"e1", "e2"}

Bus == [subscribers |-> subscribers, queues |-> queues]

\* asyncio.Queue: full() is maxsize > 0 and qsize() >= maxsize.
QueueFull(q) == q.maxsize > 0 /\ Len(q.items) >= q.maxsize

PutNowait(q, item) == [q EXCEPT !.items = Append(@, item)]

GetNowait(q) == [q EXCEPT !.items = Tail(@)]

\* publish's loop body with the new event dropped when the queue is full.
DeliverNoEvict(q, item) == IF QueueFull(q) THEN q ELSE PutNowait(q, item)

\* publish's loop body for one queue: put_nowait; on QueueFull get_nowait
\* and put_nowait again; an exception of these two skips the queue.
Deliver(q, item) ==
    IF ~QueueFull(q) THEN PutNowait(q, item)
    ELSE IF q.items = <<>> THEN q
    ELSE IF QueueFull(GetNowait(q)) THEN GetNowait(q)
    ELSE PutNowait(GetNowait(q), item)

\* publish that puts the event into every queue of the bus.
PublishToAll(b, sid, event) ==
    [b EXCEPT !.queues = [q \in DOMAIN b.queues |-> Deliver(b.queues[q], event)]]

\* publish(session_id, event)
Publish(b, sid, event) ==
    [b EXCEPT !.queues = [q \in DOMAIN b.queues |->
                             IF q \in b.subscribers[sid]
                             THEN Deliver(b.queues[q], event)
                             ELSE b.queues[q]]]

\* subscribe(session_id, max_queue_items), q being the queue it creates
Subscribe(b, sid, q, max_queue_items) ==
    [subscribers |-> [b.subscribers EXCEPT ![sid] = @ \cup {q}],
     queues |-> (q :> [maxsize |-> max_queue_items, items |-> <<>>]) @@ b.queues]

\* unsubscribe(session_id, queue)
Unsubscribe(b, sid, q) ==
    IF b.subscribers[sid] = {} THEN b
    ELSE [subscribers |-> [b.subscribers EXCEPT ![sid] = @ \ {q}],
          queues |-> [b.queues EXCEPT ![q].items = <<>>]]

BusCall(op, sid, q, event) == [op |-> op, sid |-> sid, queue |-> q, event |-> event]

InitBus ==
    /\ subscribers = [sid \in StreamSessions |-> {}]
    /\ queues = <<>>
    /\ busop = BusCall("none", 0, None, None)
    /\ streams = <<>>
    /\ pending = <<>>

StoreBus(b) == subscribers' = b.subscribers /\ queues' = b.queues

\* A client subscribes to a session.
BusSubscribe ==
    \E sid \in StreamSessions :
        /\ Cardinality(DOMAIN queues) < Len(QueueOrder)
        /\ LET q == QueueOrder[Cardinality(DOMAIN queues) + 1]
           IN  /\ StoreBus(Subscribe(Bus, sid, q, MaxQueueItems))
               /\ busop' = BusCall("subscribe", sid, q, None)
        /\ UNCHANGED <<dbvars, resp, published, posted, tx, locks, pur, dispatcher, ads, support, streams, pending>>

\* A handler publishes an event of a session.
BusPublish ==
    \E sid \in StreamSessions, event \in Events :
        /\ StoreBus(Publish(Bus, sid, event))
        /\ busop' = BusCall("publish", sid, None, event)
        /\ UNCHANGED <<dbvars, resp, published, posted, tx, locks, pur, dispatcher, ads, support, streams, pending>>

\* A holder of a queue calls unsubscribe with a session id.
BusUnsubscribe ==
    \E sid \in StreamSessions, q \in DOMAIN queues :
        /\ StoreBus(Unsubscribe(Bus, sid, q))
        /\ busop' = BusCall("unsubscribe", sid, q, None)
        /\ UNCHANGED <<dbvars, resp, published, posted, tx, locks, pur, dispatcher, ads, support, streams, pending>>

\* The reader of a queue takes its oldest item: queue.get().
BusGet ==
    \E q \in DOMAIN queues :
        /\ queues[q].items # <<>>
        /\ queues' = [queues EXCEPT ![q] = GetNowait(@)]
        /\ busop' = BusCall("get", 0, q, Head(queues[q].items))
        /\ UNCHANGED <<dbvars, resp, published, posted, tx, locks, pur, dispatcher, ads, support, subscribers, streams, pending>>

----------------------------------------------------------------------------
(* Support threads: the rows the support handlers commit and, as a record   *)
(* kept by the model, every publish call made on the bus, in order.         *)

MessageOrder == <<"m1", "m2", "m3">>

InitSupport ==
    support = [threads |-> [sid \in StreamSessions |-> [status |-> "open", messages |-> <<>>]],
               log |-> [sid \in StreamSessions |-> <<>>]]

\* thread_messages that leaves out the thread's newest row.
ThreadMessagesStale(s, sid) ==
    IF s.threads[sid].messages = <<>> THEN <<>>
    ELSE SubSeq(s.threads[sid].messages, 1, Len(s.threads[sid].messages) - 1)

\* SupportService.thread_messages(thread): the thread's rows by created_at.
ThreadMessages(s, sid) == s.threads[sid].messages

\* _thread_payload(thread, messages) of the thread as the handler loaded it.
ThreadPayload(s, sid) == [status |-> s.threads[sid].status, messages |-> ThreadMessages(s, sid)]

\* _message_payload(message) carries the id of the row.
MessageEvent(m) == [event |-> "message.created", data |-> [id |-> m]]

\* updated_at is the created_at of the message that was added last.
StatusEvent(status, updated_at) ==
    [event |-> "thread.status", data |-> [status |-> status, updated_at |-> updated_at]]

\* The model's record of one publish call: the event, the queues subscribed
\* when it was made and those of them that were full.
Published(b, sid, event) ==
    [event |-> event, subs |-> b.subscribers[sid],
     full |-> {q \in b.subscribers[sid] : QueueFull(b.queues[q])}]

MessagesPosted ==
    Cardinality(UNION {{support.threads[sid].messages[i] :
                           i \in 1..Len(support.threads[sid].messages)} : sid \in StreamSessions})

\* post_thread_message: add_message, set_thread_status("pending"), commit,
\* then the message event and the status event; the handler is not
\* suspended between the commit and the return of the second publish.
PostThreadMessage ==
    \E sid \in StreamSessions :
        /\ MessagesPosted < Len(MessageOrder)
        /\ LET m == MessageOrder[MessagesPosted + 1]
               first == MessageEvent(m)
               second == StatusEvent("pending", m)
               b1 == Publish(Bus, sid, first)
           IN  /\ support' = [threads |-> [support.threads EXCEPT
                                              ![sid] = [status |-> "pending",
                                                        messages |-> Append(@.messages, m)]],
                              log |-> [support.log EXCEPT
                                          ![sid] = @ \o <<Published(Bus, sid, first),
                                                          Published(b1, sid, second)>>]]
               /\ StoreBus(Publish(b1, sid, second))
               /\ busop' = BusCall("publish", sid, None, second)
        /\ UNCHANGED <<dbvars, resp, published, posted, tx, locks, pur, dispatcher, ads, streams, pending>>

\* The payloads of the publish calls that the model records, in the order
\* the calls are made.
EventOrder == <<"e1", "e2", "e3">>

PublishesRecorded ==
    Cardinality(UNION {{<<sid, i>> : i \in 1..Len(support.log[sid])} : sid \in StreamSessions})

\* Handlers publish events of sessions, each call entirely before the next:
\* publish holds the lock only to copy the set of queues and has no await
\* after it, so concurrent publishers are never interleaved inside a call.
RecordedPublish ==
    \E sid \in StreamSessions :
        /\ PublishesRecorded < Len(EventOrder)
        /\ LET event == EventOrder[PublishesRecorded + 1]
           IN  /\ StoreBus(Publish(Bus, sid, event))
               /\ busop' = BusCall("publish", sid, None, event)
               /\ support' = [support EXCEPT !.log[sid] = Append(@, Published(Bus, sid, event))]
        /\ UNCHANGED <<dbvars, resp, published, posted, tx, locks, pur, dispatcher, ads, streams, pending>>

----------------------------------------------------------------------------
(* The streaming endpoints stream_thread_events and admin_thread_events:    *)
(* the handler builds the snapshot, subscribes and returns a generator that *)
(* the response iterates.                                                   *)

MaxEmitted == 3

Snapshot == "thread.snapshot"

Ping == ": ping"

\* The generator's yield with the snapshot left out.
EmitWithoutSnapshot(st) ==
    IF st.pc = "snapshot" THEN [st EXCEPT !.pc = "wait"]
    ELSE [st EXCEPT !.emitted = Append(@, st.item), !.pc = "wait"]

\* event_generator up to its next yield of an event: the snapshot first,
\* then the item it took from the queue.
Emit(st) ==
    IF st.pc = "snapshot"
    THEN [st EXCEPT !.emitted = Append(@, Snapshot), !.pc = "wait"]
    ELSE [st EXCEPT !.emitted = Append(@, st.item), !.pc = "wait"]

\* The handler, for the one streaming client that is followed: the snapshot
\* payload of the thread as loaded, subscribe, the StreamingResponse.  The
\* bus lock is never held across a suspension, so the handler runs from the
\* load of the thread to the return of subscribe without being suspended.
StreamOpen ==
    \E sid \in StreamSessions :
        /\ DOMAIN streams = {}
        /\ Cardinality(DOMAIN queues) < Len(QueueOrder)
        /\ LET q == QueueOrder[Cardinality(DOMAIN queues) + 1]
           IN  /\ StoreBus(Subscribe(Bus, sid, q, MaxQueueItems))
               /\ busop' = BusCall("subscribe", sid, q, None)
               /\ streams' = streams @@ (q :> [sid |-> sid, pc |-> "snapshot", emitted |-> <<>>,
                                               taken |-> <<>>, item |-> None,
                                               shown |-> ThreadPayload(support, sid)])
        /\ UNCHANGED <<dbvars, resp, published, posted, tx, locks, pur, dispatcher, ads, support, pending>>

\* The response sends what the generator yields: the snapshot or a live event.
StreamEmit ==
    \E q \in DOMAIN streams :
        /\ streams[q].pc \in {"snapshot", "yield"}
        /\ Len(streams[q].emitted) < MaxEmitted
        /\ streams' = [streams EXCEPT ![q] = Emit(@)]
        /\ UNCHANGED <<dbvars, resp, published, posted, tx, locks, pur, dispatcher, ads, support, subscribers, queues,
                       busop, pending>>

\* item = await asyncio.wait_for(queue.get(), timeout=25), with an item.
StreamTake ==
    \E q \in DOMAIN streams :
        /\ streams[q].pc = "wait"
        /\ queues[q].items # <<>>
        /\ Len(streams[q].emitted) < MaxEmitted
        /\ queues' = [queues EXCEPT ![q] = GetNowait(@)]
        /\ busop' = BusCall("get", 0, q, Head(queues[q].items))
        /\ streams' = [streams EXCEPT ![q].item = Head(queues[q].items),
                                      ![q].taken = Append(@, Head(queues[q].items)),
                                      ![q].pc = "yield"]
        /\ UNCHANGED <<dbvars, resp, published, posted, tx, locks, pur, dispatcher, ads, support, subscribers, pending>>

\* The wait for an item times out: the generator yields a ping comment.
StreamPing ==
    \E q \in DOMAIN streams :
        /\ streams[q].pc = "wait"
        /\ queues[q].items = <<>>
        /\ Len(streams[q].emitted) < MaxEmitted
        /\ streams' = [streams EXCEPT ![q].emitted = Append(@, Ping)]
        /\ UNCHANGED <<dbvars, resp, published, posted, tx, locks, pur, dispatcher, ads, support, subscribers, queues,
                       busop, pending>>

\* The client goes away while the generator is suspended: its finally block
\* unsubscribes the queue.
StreamClose ==
    \E q \in DOMAIN streams :
        /\ streams[q].pc \in {"wait", "yield"}
        /\ StoreBus(Unsubscribe(Bus, streams[q].sid, q))
        /\ busop' = BusCall("unsubscribe", streams[q].sid, q, None)
        /\ streams' = [streams EXCEPT ![q].pc = "closed"]
        /\ UNCHANGED <<dbvars, resp, published, posted, tx, locks, pur, dispatcher, ads, support, pending>>

\* The response ends before its generator was started (the client is gone
\* or the request is cancelled when the handler returns): a generator that
\* was never started has not entered its try block, so closing it runs no
\* finally block and nothing unsubscribes the queue the handler subscribed.
StreamDrop ==
    \E q \in DOMAIN streams :
        /\ streams[q].pc = "snapshot"
        /\ streams' = [streams EXCEPT ![q].pc = "closed"]
        /\ UNCHANGED <<dbvars, resp, published, posted, tx, locks, pur, dispatcher, ads, support,
                       subscribers, queues, busop, pending>>

----------------------------------------------------------------------------
(* WorkerDispatcher: dispatch_job calls that run concurrently on one         *)
(* dispatcher.  Each call is a coroutine; it gives up control only where it  *)
(* waits for the lock and where it awaits the POST.                          *)

DispatchCalls == {"d1", "d2", "d3"}

\* worker.base_url of the workers jobs are sent to.
DispatchBaseUrl == [w1 |-> <<"h">>, w2 |-> <<"g", "/", "/">>]

\* The URL dispatch_job posts to.
JobCreateUrl(base_url) == RStrip(base_url, "/") \o <<"/job/create">>

\* received: the pieces of the response that the POST in flight has read so
\* far, counted modulo 2.
InitDispatcher ==
    dispatcher = [locked |-> FALSE, waiters |-> <<>>, calls |-> <<>>, received |-> 0]

\* A lock that every caller finds free.
LockAlwaysFree(l) == TRUE

\* asyncio.Lock.acquire returns at once when the lock is not held and nobody
\* waits for it; otherwise the caller queues behind the waiters.
LockFree(l) == ~l.locked /\ l.waiters = <<>>

\* Entering `async with self._lock`: a call that gets the lock sends its POST
\* and awaits the response; another one waits.
DispatchBegin ==
    \E c \in DispatchCalls \ DOMAIN dispatcher.calls, w \in DOMAIN DispatchBaseUrl :
        LET url == JobCreateUrl(DispatchBaseUrl[w])
        IN /\ dispatcher' =
                 IF LockFree(dispatcher)
                 THEN [dispatcher EXCEPT
                          !.locked = TRUE,
                          !.calls = @ @@ (c :> [pc |-> "posting", worker |-> w, posts |-> <<url>>])]
                 ELSE [dispatcher EXCEPT
                          !.waiters = Append(@, c),
                          !.calls = @ @@ (c :> [pc |-> "waiting", worker |-> w, posts |-> <<>>])]
           /\ UNCHANGED <<dbvars, resp, published, posted, tx, locks, pur,
                          subscribers, queues, busop, streams, pending, ads, support>>

\* The POST returns or raises: leaving the `async with` block releases the
\* lock; raise_for_status then raises for an error status.
DispatchEnd ==
    \E c \in DOMAIN dispatcher.calls, out \in DispatchOutcomes :
        /\ dispatcher.calls[c].pc = "posting"
        /\ dispatcher' = [dispatcher EXCEPT
                             !.locked = FALSE,
                             !.calls[c].pc = IF DispatchJobOk(out) THEN "returned" ELSE "raised"]
        /\ UNCHANGED <<dbvars, resp, published, posted, tx, locks, pur,
                       subscribers, queues, busop, streams, pending, ads, support>>

\* The first waiter is woken by the release, takes the lock and sends its
\* POST.
DispatchWake ==
    /\ ~dispatcher.locked
    /\ dispatcher.waiters # <<>>
    /\ LET c == Head(dispatcher.waiters)
           url == JobCreateUrl(DispatchBaseUrl[dispatcher.calls[c].worker])
       IN dispatcher' = [dispatcher EXCEPT
                            !.locked = TRUE,
                            !.waiters = Tail(@),
                            !.calls[c].pc = "posting",
                            !.calls[c].posts = Append(@, url)]
    /\ UNCHANGED <<dbvars, resp, published, posted, tx, locks, pur,
                   subscribers, queues, busop, streams, pending, ads, support>>

\* The worker sends a further piece of its response before the read timeout
\* expires.  httpx.Timeout(10.0, connect=5.0) limits the wait for the
\* connection and each wait for data, not the exchange as a whole: the POST
\* goes on, and its call keeps the lock.
DispatchData ==
    /\ \E c \in DOMAIN dispatcher.calls : dispatcher.calls[c].pc = "posting"
    /\ dispatcher' = [dispatcher EXCEPT !.received = (@ + 1) % 2]
    /\ UNCHANGED <<dbvars, resp, published, posted, tx, locks, pur,
                   subscribers, queues, busop, streams, pending, ads, support>>

----------------------------------------------------------------------------
(* The service, one request at a time *)

InitWorkers ==
    [w1 |-> [status |-> "active", max_sessions |-> 1, current_jobs |-> 0, token_id |-> "t1"],
     w2 |-> [status |-> "active", max_sessions |-> 1, current_jobs |-> 0, token_id |-> "t2"],
     w3 |-> [status |-> "active", max_sessions |-> 1, current_jobs |-> 0, token_id |-> None]]

InitTokens ==
    [t1 |-> [secret |-> "s1", revoked |-> FALSE, revoked_at |-> NotRevoked],
     t2 |-> [secret |-> "s2", revoked |-> FALSE, revoked_at |-> NotRevoked]]

InitDb ==
    /\ coins = InitCoins
    /\ wallet = <<>>
    /\ ledger = <<>>
    /\ sessions = <<>>
    /\ workers = InitWorkers
    /\ tokens = InitTokens
    /\ products = Products
    /\ resp = Response("none", 0, "")
    /\ published = <<>>
    /\ posted = <<>>

\* AdsNonceManager before its construction, with the records the model keeps
\* of its calls.
InitAds ==
    ads = [constructed |-> FALSE, redis |-> FALSE, ttl_seconds |-> 1, now |-> 0,
           store |-> <<>>, rstore |-> <<>>,
           issued |-> <<>>, tried |-> {}, wins |-> <<>>, faulted |-> FALSE,
           last |-> [op |-> "none"]]

Idle == tx = <<>> /\ locks = {} /\ pur = <<>>

Init == InitDb /\ Idle /\ InitBus /\ InitDispatcher /\ InitAds /\ InitSupport

WithinBounds(d) == Len(d.ledger) <= MaxLedger /\ Len(d.sessions) <= MaxSessions

\* The commit of a database state.
Store(d) ==
    /\ WithinBounds(d)
    /\ coins' = d.coins
    /\ wallet' = d.wallet
    /\ ledger' = d.ledger
    /\ sessions' = d.sessions
    /\ workers' = d.workers
    /\ tokens' = d.tokens
    /\ products' = d.products

Apply(o) ==
    /\ Store(o.db)
    /\ resp' = o.resp
    /\ published' = o.published
    /\ posted' = o.posted

\* A correctly built result callback of a worker arrives and is handled.
ResultCallback ==
    \E req \in GoodRequests("result") :
        /\ Apply(WorkerResult(Cur, req))
        /\ UNCHANGED <<tx, locks, pur, busvars>>

\* Any callback arrives, well-formed or not, and is handled.
AnyCallback ==
    \E op \in CallbackOps : \E req \in Requests(op) :
        /\ Apply(Handle(Cur, op, req))
        /\ UNCHANGED <<tx, locks, pur, busvars>>

\* A correctly signed callback arrives, its timestamp near or far from the
\* server clock, and is handled.
SkewCallback ==
    \E op \in CallbackOps : \E req \in SkewRequests(op) \cup GoodRequests(op) :
        /\ Apply(Handle(Cur, op, req))
        /\ UNCHANGED <<tx, locks, pur, busvars>>

\* An administrator revokes a token, known or not.
DoRevoke ==
    \E t \in TokenIds \cup {"t9"}, now \in RevokeClock :
        LET o == RevokeToken(Cur, t, now) IN
        /\ Store(o.db)
        /\ resp' = o.resp
        /\ published' = <<>>
        /\ posted' = <<>>
        /\ UNCHANGED <<tx, locks, pur, busvars>>

\* A status callback arrives and is handled.
CounterCallback ==
    \E req \in CounterRequests \cup GoodRequests("status") :
        /\ Apply(WorkerStatus(Cur, req))
        /\ UNCHANGED <<tx, locks, pur, busvars>>

\* The base URLs an administrator submits.
BaseUrls == {<<>>, <<" ">>, <<"h">>, <<" ", "h", "/", "/">>}

\* An administrator registers a worker.
DoRegister ==
    \E base_url \in BaseUrls, max_sessions \in 1..MaxSessions, probe \in ProbeOutcomes :
        /\ Cardinality(DOMAIN workers) < Cardinality(DOMAIN InitWorkers) + Len(NewWorkerOrder)
        /\ LET id == NewWorkerOrder[Cardinality(DOMAIN workers) - Cardinality(DOMAIN InitWorkers) + 1]
               o == RegisterWorker(Cur, base_url, max_sessions, probe, id)
           IN  /\ Store(o.db)
               /\ resp' = o.resp
               /\ published' = <<>>
               /\ posted' = o.probed
        /\ UNCHANGED <<tx, locks, pur, busvars>>

\* A purchase request arrives and is handled.
DoPurchase ==
    \E u \in Users, p \in ProductIds, k \in Keys, w \in WorkerIds, outcome \in DispatchOutcomes :
        /\ LET debited == AdjustBalance(Cur, u, -Products[p].price_coins, "vps.purchase", 0, "purchase").db
           IN  EligibleWorkers(debited, p) # {} => w \in EligibleWorkers(debited, p)
        /\ Apply(Purchase(Cur, u, p, k, w, outcome))
        /\ UNCHANGED <<tx, locks, pur, busvars>>

\* A purchase request whose job the worker accepts.
DispatchedPurchase ==
    \E u \in Users, p \in ProductIds, k \in Keys, w \in WorkerIds :
        /\ LET debited == AdjustBalance(Cur, u, -Products[p].price_coins, "vps.purchase", 0, "purchase").db
           IN  EligibleWorkers(debited, p) # {} => w \in EligibleWorkers(debited, p)
        /\ Apply(Purchase(Cur, u, p, k, w, "2xx"))
        /\ UNCHANGED <<tx, locks, pur, busvars>>

\* A caller of the wallet service (a reward, a gift code, a debit) adjusts a
\* balance and commits; when adjust_balance raises, the caller's database
\* session is closed without a commit.
DoAdjust ==
    \E u \in Users, amount \in AdjustAmounts :
        LET r == AdjustBalance(Cur, u, amount, IF amount < 0 THEN "debit.test" ELSE "ads.reward", 0, None)
        IN  /\ Apply(Outcome(IF r.ok THEN r.db ELSE Cur,
                             [Response("adjust", IF r.ok THEN 200 ELSE 400,
                                       IF r.ok THEN "ok" ELSE "Insufficient balance")
                                 EXCEPT !.balance = r.balance],
                             <<>>, <<>>))
            /\ UNCHANGED <<tx, locks, pur, busvars>>

\* The purchases that precede the callbacks in SpecCallbacks.
SeedPurchase ==
    \E w \in WorkerIds :
        /\ w \in EligibleWorkers(Cur, "p1")
        /\ Apply(Purchase(Cur, "u1", "p1", "k1", w, "2xx"))
        /\ UNCHANGED <<tx, locks, pur, busvars>>

----------------------------------------------------------------------------
(* Result callbacks as coroutines: worker_result runs to its commit without *)
(* suspending, and suspends at each await of event_bus.publish, where other *)
(* callbacks and subscribers run.                                           *)

\* The callbacks that are followed, numbered in the order of their commits.
CallbackIds == {1, 2}

\* The event as a subscriber's queue holds it; callback names the request
\* that published it (a history field, read by no handler).
PublishedBy(i, event) == [callback |-> i] @@ event

\* publish for a session without an entry in the subscribers map returns.
PublishIfKnown(b, sid, item) == IF sid \in DOMAIN b.subscribers THEN Publish(b, sid, item) ELSE b

\* worker_result up to and including db.commit(); a request that raises
\* ends with its error response.
ResultCommit ==
    \E req \in GoodRequests("result") :
        LET o == WorkerResult(Cur, req) IN
        /\ Len(pending) + 1 \in CallbackIds
        /\ Store(o.db)
        /\ IF o.resp.code = 200
           THEN /\ pending' = Append(pending, [sid |-> JsonLoads(req.body).session_id,
                                                todo |-> o.published, sent |-> <<>>,
                                                resp |-> o.resp])
                /\ UNCHANGED resp
           ELSE /\ resp' = o.resp
                /\ UNCHANGED pending
        /\ UNCHANGED <<published, posted, tx, locks, pur, dispatcher, ads, support, subscribers, queues, busop, streams>>

\* The next await event_bus.publish of a callback that has committed; the
\* response follows the last one.
ResultPublish ==
    \E i \in 1..Len(pending) :
        /\ pending[i].todo # <<>>
        /\ LET event == Head(pending[i].todo) IN
           /\ StoreBus(PublishIfKnown(Bus, pending[i].sid, PublishedBy(i, event)))
           /\ busop' = BusCall("publish", pending[i].sid, None, PublishedBy(i, event))
           /\ pending' = [pending EXCEPT ![i].todo = Tail(@), ![i].sent = Append(@, event)]
        /\ resp' = IF Tail(pending[i].todo) = <<>> THEN pending[i].resp ELSE resp
        /\ UNCHANGED <<dbvars, published, posted, tx, locks, pur, dispatcher, ads, support, streams>>

----------------------------------------------------------------------------
(* Concurrent callers of adjust_balance.  Each caller runs in its own       *)
(* database session: a READ COMMITTED transaction that ends with the        *)
(* caller's commit, or with a rollback when adjust_balance raises.          *)

Callers == {"c1", "c2"}

Without(f, x) == [y \in DOMAIN f \ {x} |-> f[y]]

Release(lk, c) == {x \in lk : x.holder # c}

\* The end of a transaction that raised: the session is closed, its pending
\* rows are gone, its locks are released.
AbortAdjust(c, code, detail) ==
    /\ tx' = Without(tx, c)
    /\ locks' = Release(locks, c)
    /\ resp' = [Response("adjust", code, detail) EXCEPT !.balance = tx[c].seed]
    /\ published' = <<>>
    /\ posted' = <<>>
    /\ UNCHANGED <<dbvars, pur, busvars>>

\* A caller loads the user, coins included, and calls adjust_balance.
BeginAdjust ==
    \E c \in Callers, u \in Users, amount \in AdjustAmounts :
        /\ c \notin DOMAIN tx
        /\ Len(ledger) + Cardinality(DOMAIN tx) < MaxLedger
        /\ tx' = tx @@ (c :> [pc |-> "select", user |-> u, amount |-> amount,
                              coins |-> coins[u], seed |-> 0, created |-> FALSE])
        /\ UNCHANGED <<dbvars, resp, published, posted, locks, pur, busvars>>

\* adjust_balance: wallet = self._get_wallet(user.id, lock=True)
SelectWallet ==
    \E c \in DOMAIN tx :
        /\ tx[c].pc = "select"
        /\ LET g == GetWallet(Cur, locks, tx[c].user, c)
           IN  /\ ~g.waits
               /\ locks' = g.locks
               /\ tx' = [tx EXCEPT ![c].pc = IF g.found THEN "write" ELSE "insert",
                                   ![c].seed = IF g.found THEN g.balance ELSE tx[c].coins]
        /\ UNCHANGED <<dbvars, resp, published, posted, pur, busvars>>

\* adjust_balance without a wallet row: the row is added with the user's
\* coins and flushed.  The INSERT waits for an open transaction that inserted
\* a row for the same user.
InsertWallet ==
    \E c \in DOMAIN tx :
        /\ tx[c].pc = "insert"
        /\ ~RowLockedByOther(locks, tx[c].user, c)
        /\ IF WalletKeyConflict(Cur, tx[c].user)
           THEN AbortAdjust(c, 500, "IntegrityError")
           ELSE /\ locks' = locks \cup {RowLock(tx[c].user, c)}
                /\ tx' = [tx EXCEPT ![c].pc = "write", ![c].created = TRUE]
                /\ UNCHANGED <<dbvars, resp, published, posted, pur, busvars>>

\* adjust_balance: the check of the new balance, the writes of the wallet
\* row, the user row and the ledger entry, and the flush.  The UPDATE waits
\* for the lock of the row.
WriteBalance ==
    \E c \in DOMAIN tx :
        /\ tx[c].pc = "write"
        /\ ~RowLockedByOther(locks, tx[c].user, c)
        /\ IF tx[c].seed + tx[c].amount < 0
           THEN AbortAdjust(c, 400, "Insufficient balance")
           ELSE /\ locks' = locks \cup {RowLock(tx[c].user, c)}
                /\ tx' = [tx EXCEPT ![c].pc = "commit"]
                /\ UNCHANGED <<dbvars, resp, published, posted, pur, busvars>>

\* The caller's commit.
CommitAdjust ==
    \E c \in DOMAIN tx :
        /\ tx[c].pc = "commit"
        /\ LET u == tx[c].user
               new_balance == tx[c].seed + tx[c].amount
           IN  /\ Store([Cur EXCEPT !.wallet = (u :> new_balance) @@ wallet,
                                    !.coins[u] = new_balance,
                                    !.ledger = Append(ledger,
                                        LedgerEntry(u, IF tx[c].amount < 0 THEN "debit.test" ELSE "ads.reward",
                                                    tx[c].amount, new_balance, 0, None))])
               /\ resp' = [Response("adjust", 200, "ok") EXCEPT !.balance = new_balance]
        /\ tx' = Without(tx, c)
        /\ locks' = Release(locks, c)
        /\ published' = <<>>
        /\ posted' = <<>>
        /\ UNCHANGED <<pur, busvars>>

----------------------------------------------------------------------------
(* Concurrent purchase requests: the steps of purchase_and_create in the    *)
(* order of section 4.4, each database statement on its own; the requests   *)
(* of different clients interleave between the steps.                       *)

PurchaseIds == {"r1", "r2"}

\* The idempotency keys of the concurrent requests: clients that retry.
RetriedKeys == {"k1"}

WorkerStates == {"active", "disabled"}

\* A purchase request arrives: the lookup of an earlier session.
BeginPurchase ==
    \E r \in PurchaseIds, u \in Users, p \in ProductIds, k \in RetriedKeys :
        /\ r \notin DOMAIN pur
        /\ IF ExistingSession(Cur, u, k) # {}
           THEN /\ Apply(Outcome(Cur, PurchaseResponse(200, "ok",
                                     CHOOSE i \in ExistingSession(Cur, u, k) : TRUE, FALSE),
                                 <<>>, <<>>))
                /\ UNCHANGED pur
           ELSE /\ pur' = pur @@ (r :> [pc |-> "debit", user |-> u, product |-> p,
                                        key |-> k, worker |-> None])
                /\ UNCHANGED <<dbvars, resp, published, posted>>
        /\ UNCHANGED <<tx, locks, busvars>>

\* The debit of the product's price.
PurchaseDebit ==
    \E r \in DOMAIN pur :
        /\ pur[r].pc = "debit"
        /\ LET debit == AdjustBalance(Cur, pur[r].user, -Products[pur[r].product].price_coins,
                                      "vps.purchase", 0, "purchase")
           IN  IF ~debit.ok
               THEN /\ Apply(Outcome(Cur, PurchaseResponse(400, "Insufficient balance", 0, FALSE),
                                     <<>>, <<>>))
                    /\ pur' = Without(pur, r)
               ELSE /\ Store(debit.db)
                    /\ pur' = [pur EXCEPT ![r].pc = "select"]
                    /\ UNCHANGED <<resp, published, posted>>
        /\ UNCHANGED <<tx, locks, busvars>>

\* The selection of a worker.
PurchaseSelect ==
    \E r \in DOMAIN pur :
        /\ pur[r].pc = "select"
        /\ IF EligibleWorkers(Cur, pur[r].product) = {}
           THEN /\ Apply(Outcome(Compensate(Cur, pur[r].user, pur[r].product, "no_capacity"),
                                 PurchaseResponse(409, "NoCapacity", 0, FALSE), <<>>, <<>>))
                /\ pur' = Without(pur, r)
           ELSE /\ \E w \in EligibleWorkers(Cur, pur[r].product) :
                        pur' = [pur EXCEPT ![r].pc = "dispatch", ![r].worker = w]
                /\ UNCHANGED <<dbvars, resp, published, posted>>
        /\ UNCHANGED <<tx, locks, busvars>>

\* The dispatch of the job to the selected worker and, when the worker took
\* it, the session row.
PurchaseDispatch ==
    \E r \in DOMAIN pur, outcome \in DispatchOutcomes :
        /\ pur[r].pc = "dispatch"
        /\ LET sid == Len(sessions) + 1
               job == <<[worker_id |-> pur[r].worker, session_id |-> sid]>>
           IN  IF ~DispatchJobOk(outcome)
               THEN Apply(Outcome(Compensate(Cur, pur[r].user, pur[r].product, "dispatch_failed"),
                                  PurchaseResponse(502, "DispatchFailed", 0, FALSE), <<>>, job))
               ELSE Apply(Outcome([Cur EXCEPT !.sessions = Append(@,
                                      NewSession(pur[r].user, pur[r].product, pur[r].worker, pur[r].key))],
                                  PurchaseResponse(200, "ok", sid, TRUE), <<>>, job))
        /\ pur' = Without(pur, r)
        /\ UNCHANGED <<tx, locks, busvars>>

\* update_worker: an administrator enables or disables a worker.
UpdateWorker ==
    \E w \in WorkerIds, st \in WorkerStates :
        /\ Apply(Outcome([Cur EXCEPT !.workers[w].status = st],
                         Response("worker.update", 200, "ok"), <<>>, <<>>))
        /\ UNCHANGED <<tx, locks, pur, busvars>>

----------------------------------------------------------------------------
(* AdsNonceManager: the nonces of rewarded ads, kept in Redis when the       *)
(* manager was given a client and in the manager's own dictionary otherwise  *)
(* (and whenever a Redis call raises).  now is what time.time() returns.     *)

\* secrets.token_urlsafe(32): the tokens it returns, in order.
NonceOrder == <<"n1", "n2">>
AdsClock == 0..3
Devices == {"dev1", "dev2"}
Placements == {"earn"}

AdsResult(a, ok, error, device_hash, placement) ==
    [ads |-> a, ok |-> ok, error |-> error, device_hash |-> device_hash, placement |-> placement]

\* issue(user_id, device_hash, placement) when token_urlsafe returns nonce;
\* redis_ok tells whether a call of the Redis client returns or raises.
AdsIssue(a, user_id, device_hash, placement, nonce, redis_ok) ==
    IF a.redis /\ redis_ok
    THEN [a EXCEPT !.rstore = (nonce :> [uid |-> user_id, device |-> device_hash,
                                         placement |-> placement,
                                         gone_at |-> a.now + a.ttl_seconds]) @@ @]
    ELSE [a EXCEPT !.store = (nonce :> [uid |-> user_id, device |-> device_hash,
                                        placement |-> placement,
                                        expires_at |-> a.now + a.ttl_seconds]) @@ @]

\* GETDEL of the nonce's key: the value of a key that Redis still holds.
RedisLive(a, nonce) == nonce \in DOMAIN a.rstore /\ a.now < a.rstore[nonce].gone_at

\* consume(user_id, nonce): the record is taken out of its store (GETDEL, or
\* dict.pop) first; then the expiry and the owner are checked.  A failure is
\* an AdsNonceError with the message in error.
AdsConsume(a, user_id, nonce, redis_ok) ==
    LET payload == a.redis /\ redis_ok /\ RedisLive(a, nonce)
        a1 == IF a.redis /\ redis_ok THEN [a EXCEPT !.rstore = Without(@, nonce)] ELSE a
    IN IF payload
       THEN LET raw == a.rstore[nonce]
            IN IF raw.uid # user_id THEN AdsResult(a1, FALSE, "Nonce owner mismatch", "", "")
               ELSE AdsResult(a1, TRUE, "", raw.device, raw.placement)
       ELSE LET a2 == [a1 EXCEPT !.store = Without(@, nonce)]
            IN IF nonce \notin DOMAIN a1.store THEN AdsResult(a2, FALSE, "Unknown nonce", "", "")
               ELSE LET record == a1.store[nonce]
                    IN IF record.expires_at < a.now
                       THEN AdsResult(a2, FALSE, "Nonce expired", "", "")
                       ELSE IF record.uid # user_id
                       THEN AdsResult(a2, FALSE, "Nonce owner mismatch", "", "")
                       ELSE AdsResult(a2, TRUE, "", record.device, record.placement)

AdsUnchanged ==
    UNCHANGED <<dbvars, resp, published, posted, tx, locks, pur,
                subscribers, queues, busop, streams, pending, dispatcher, support>>

\* AdsNonceManager(ttl_seconds, redis_client=...)
AdsConstruct ==
    \E r \in BOOLEAN :
        /\ ~ads.constructed
        /\ ads' = [ads EXCEPT !.constructed = TRUE, !.redis = r]
        /\ AdsUnchanged

AdsTick ==
    /\ ads.now + 1 \in AdsClock
    /\ ads' = [ads EXCEPT !.now = @ + 1]
    /\ AdsUnchanged

\* A call of issue; issued keeps what each nonce was issued with.
DoIssue ==
    \E u \in Users, dev \in Devices, pl \in Placements, redis_ok \in BOOLEAN :
        LET free == {i \in 1..Len(NonceOrder) : NonceOrder[i] \notin DOMAIN ads.issued}
            nonce == NonceOrder[CHOOSE i \in free : \A j \in free : i <= j]
        IN /\ ads.constructed
           /\ free # {}
           /\ ads.redis \/ redis_ok
           /\ ads' = [AdsIssue(ads, u, dev, pl, nonce, redis_ok) EXCEPT
                         !.issued = (nonce :> [uid |-> u, device |-> dev, placement |-> pl,
                                               expires_at |-> ads.now + ads.ttl_seconds]) @@ @,
                         !.wins = (nonce :> 0) @@ @,
                         !.faulted = @ \/ ~redis_ok,
                         !.last = [op |-> "issue", nonce |-> nonce]]
           /\ AdsUnchanged

\* A call of consume; tried holds the nonces whose owner has called consume
\* before the expiry, wins counts the calls that returned a record, faulted
\* tells that a call of the Redis client has raised, and last.first that the
\* call was the owner's first before the expiry.
DoConsume ==
    \E u \in Users, nonce \in DOMAIN ads.issued \cup {"missing"}, redis_ok \in BOOLEAN :
        LET r == AdsConsume(ads, u, nonce, redis_ok)
            in_time == /\ nonce \in DOMAIN ads.issued
                       /\ ads.issued[nonce].uid = u
                       /\ ads.now < ads.issued[nonce].expires_at
        IN /\ ads.constructed
           /\ ads.redis \/ redis_ok
           /\ ads' = [r.ads EXCEPT
                         !.tried = IF in_time THEN @ \cup {nonce} ELSE @,
                         !.wins = IF r.ok THEN [@ EXCEPT ![nonce] = @ + 1] ELSE @,
                         !.faulted = @ \/ ~redis_ok,
                         !.last = [op |-> "consume", nonce |-> nonce, uid |-> u, ok |-> r.ok,
                                   error |-> r.error, device_hash |-> r.device_hash,
                                   placement |-> r.placement,
                                   first |-> in_time /\ nonce \notin ads.tried]]
           /\ AdsUnchanged

----------------------------------------------------------------------------
(* The product catalogue: VpsProductService *)

\* An optional argument of update_product: None, or a value.
Unset == [set |-> FALSE]
Given(v) == [set |-> TRUE, val |-> v]

\* The ids the database gives to new vps_products rows, in order.
NewProductOrder == <<"p3">>

NextProductId ==
    LET free == {i \in 1..Len(NewProductOrder) : NewProductOrder[i] \notin DOMAIN products}
    IN IF free = {} THEN None ELSE NewProductOrder[CHOOSE i \in free : \A j \in free : i <= j]

Resolved(ok, detail, pool) == [ok |-> ok, detail |-> detail, workers |-> pool]

\* _resolve_workers without the status check.
ResolveWorkersAnyStatus(d, worker_ids) ==
    IF worker_ids = {} THEN Resolved(TRUE, "ok", {})
    ELSE IF worker_ids \ DOMAIN d.workers # {} THEN Resolved(FALSE, "Unknown worker ids", {})
    ELSE Resolved(TRUE, "ok", worker_ids)

\* _resolve_workers: the rows of the listed workers, all of them found and
\* all of them with status active.
ResolveWorkers(d, worker_ids) ==
    IF worker_ids = {} THEN Resolved(TRUE, "ok", {})
    ELSE LET found == worker_ids \cap DOMAIN d.workers
             missing == worker_ids \ found
             inactive == {w \in found : d.workers[w].status # "active"}
         IN IF missing # {} THEN Resolved(FALSE, "Unknown worker ids", {})
            ELSE IF inactive # {} THEN Resolved(FALSE, "Inactive workers", {})
            ELSE Resolved(TRUE, "ok", found)

\* create_product: the row is added and committed after the price check and
\* after _resolve_workers returned.
CreateProduct(d, price_coins, worker_ids, id) ==
    IF price_coins < 0
    THEN Outcome(d, Response("product.create", 400, "price_coins must be >= 0"), <<>>, <<>>)
    ELSE LET r == ResolveWorkers(d, worker_ids)
         IN IF ~r.ok
            THEN Outcome(d, Response("product.create", 400, r.detail), <<>>, <<>>)
            ELSE Outcome([d EXCEPT !.products =
                              @ @@ (id :> [price_coins |-> price_coins, workers |-> r.workers])],
                         Response("product.create", 200, "ok"), <<>>, <<>>)

\* update_product: the fields are assigned on the loaded row, then the pool;
\* the row is committed at the end, so an error leaves what is stored.
UpdateProduct(d, product_id, price_coins, worker_ids) ==
    IF product_id \notin DOMAIN d.products
    THEN Outcome(d, Response("product.update", 404, "Product not found."), <<>>, <<>>)
    ELSE IF price_coins.set /\ price_coins.val < 0
    THEN Outcome(d, Response("product.update", 400, "price_coins must be >= 0"), <<>>, <<>>)
    ELSE LET loaded == d.products[product_id]
             priced == IF price_coins.set THEN [loaded EXCEPT !.price_coins = price_coins.val]
                       ELSE loaded
             r == IF worker_ids.set THEN ResolveWorkers(d, worker_ids.val)
                  ELSE Resolved(TRUE, "ok", loaded.workers)
         IN IF ~r.ok
            THEN Outcome(d, Response("product.update", 400, r.detail), <<>>, <<>>)
            ELSE Outcome([d EXCEPT !.products[product_id] = [priced EXCEPT !.workers = r.workers]],
                         Response("product.update", 200, "ok"), <<>>, <<>>)

\* The worker lists an administrator sends: stored workers and an id that no
\* row has.
WorkerLists == SUBSET {"w1", "w2", "w9"}
PriceInputs == {-1, 0, 2}
CatalogIds == DOMAIN Products \cup {"p3", "p9"}
OptionalPrices == {Unset} \cup {Given(n) : n \in PriceInputs}
OptionalWorkerLists == {Unset} \cup {Given(l) : l \in WorkerLists}

DoCreateProduct ==
    \E price \in PriceInputs, l \in WorkerLists :
        /\ NextProductId # None
        /\ Apply(CreateProduct(Cur, price, l, NextProductId))
        /\ UNCHANGED <<tx, locks, pur, busvars>>

DoUpdateProduct ==
    \E p \in CatalogIds, price \in OptionalPrices, l \in OptionalWorkerLists :
        /\ Apply(UpdateProduct(Cur, p, price, l))
        /\ UNCHANGED <<tx, locks, pur, busvars>>

----------------------------------------------------------------------------
(* Concurrent result callbacks.  Each request has its own database session: *)
(* _verify_request loads the worker row into it and then awaits the request *)
(* body, where other requests run; the handler continues with the row as it *)
(* was loaded and commits the columns it assigned.                          *)

\* update_worker: an administrator sets a worker's max_sessions.
UpdateWorkerCapacity ==
    \E w \in WorkerIds, n \in 1..MaxSessions :
        /\ Apply(Outcome([Cur EXCEPT !.workers[w].max_sessions = n],
                         Response("worker.update", 200, "ok"), <<>>, <<>>))
        /\ UNCHANGED <<tx, locks, pur, busvars>>

\* The database as the request's session sees it: the worker row it loaded,
\* everything it has not loaded yet as committed.
SessionView(d, w, loaded) == [d EXCEPT !.workers[w] = loaded]

\* The commit of the worker row: the UPDATE sets the columns whose value the
\* handler changed on the loaded object.
FlushWorker(row, loaded, new) ==
    [row EXCEPT !.current_jobs = IF new.current_jobs # loaded.current_jobs
                                 THEN new.current_jobs ELSE @,
                !.status = IF new.status # loaded.status THEN new.status ELSE @]

\* Purchases of one user with different idempotency keys, each dispatched.
KeyedPurchase ==
    \E k \in Keys, w \in WorkerIds :
        /\ w \in EligibleWorkers(Cur, "p1")
        /\ Apply(Purchase(Cur, "u1", "p1", k, w, "2xx"))
        /\ UNCHANGED <<tx, locks, pur, busvars>>

\* A status callback that arrives while no result callback is in flight.
QuietReport == tx = <<>> /\ CounterCallback

\* The result callbacks a worker sends for its own provisioning sessions.
OwnResults ==
    {req \in GoodRequests("result") :
        LET doc == req.body[1] IN
        /\ "session_id" \in DOMAIN doc /\ doc.session_id \in 1..Len(sessions)
        /\ Get(doc, "status") \in {"ready", "failed"}
        /\ sessions[doc.session_id].worker_id = req.wid
        /\ sessions[doc.session_id].status = "provisioning"}

\* worker_result to the await of the body: the headers are read, the worker
\* and its token are loaded and checked.
BeginResult ==
    \E c \in Callers, req \in OwnResults :
        /\ c \notin DOMAIN tx
        /\ \A x \in DOMAIN tx : tx[x].req.body[1].session_id # req.body[1].session_id
        /\ VerifyRequest(Cur, req).ok
        /\ tx' = tx @@ (c :> [pc |-> "body", req |-> req, worker |-> workers[req.wid]])
        /\ UNCHANGED <<dbvars, resp, published, posted, locks, pur, busvars>>

\* worker_result from the body on: the payload's checks, the session row,
\* the refund, the worker's counter, the commit and the publishes.
FinishResult ==
    \E c \in DOMAIN tx :
        /\ tx[c].pc = "body"
        /\ LET req == tx[c].req
               o == WorkerResult(SessionView(Cur, req.wid, tx[c].worker), req)
           IN  /\ Store(IF o.resp.code = 200
                        THEN [o.db EXCEPT !.workers[req.wid] =
                                 FlushWorker(workers[req.wid], tx[c].worker, @)]
                        ELSE Cur)
               /\ resp' = o.resp
               /\ published' = o.published
               /\ posted' = o.posted
        /\ tx' = Without(tx, c)
        /\ UNCHANGED <<locks, pur, busvars>>

Next == DoPurchase \/ ResultCallback

Spec == Init /\ [][Next]_vars

\* Purchase requests with every outcome of the dispatch, while administrators
\* enable and disable workers.
NextCharges == DoPurchase \/ UpdateWorker

SpecCharges == Init /\ [][NextCharges]_vars

\* Result callbacks for the sessions of purchases that were dispatched.
NextRefunds == DispatchedPurchase \/ ResultCallback

SpecRefunds == Init /\ [][NextRefunds]_vars

\* The wallet service alone: a sequence of adjust_balance calls.
NextWallet == DoAdjust

SpecWallet == Init /\ [][NextWallet]_vars

\* Purchases of users whose balances other callers of the wallet service
\* change in between.
NextFunds == DoPurchase \/ DoAdjust

SpecFunds == Init /\ [][NextFunds]_vars

NextCallbacks == SeedPurchase \/ AnyCallback

SpecCallbacks == Init /\ [][NextCallbacks]_vars

\* The callbacks again, for the properties of bodies that cannot be used.
NextIntake == SeedPurchase \/ AnyCallback

SpecIntake == Init /\ [][NextIntake]_vars

\* Signed callbacks with timestamps around the clock skew limit.
NextSkew == SeedPurchase \/ SkewCallback

SpecSkew == Init /\ [][NextSkew]_vars

\* The workers' job counters under status and result callbacks.
NextCounters == SeedPurchase \/ CounterCallback \/ ResultCallback

SpecCounters == Init /\ [][NextCounters]_vars

\* Sessions that result callbacks move on, while the workers report their
\* job counts.
NextSessions == KeyedPurchase \/ ResultCallback \/ CounterCallback

SpecSessions == Init /\ [][NextSessions]_vars

\* The worker registry: registrations, with a purchase and result callbacks
\* changing the sessions.
NextRegistry == DoRegister \/ SeedPurchase \/ ResultCallback

SpecRegistry == Init /\ [][NextRegistry]_vars

\* The calls on one AdsNonceManager while time passes.
NextAds == AdsConstruct \/ AdsTick \/ DoIssue \/ DoConsume

SpecAds == Init /\ [][NextAds]_vars

\* Concurrent dispatch_job calls on one dispatcher.
NextDispatch == DispatchBegin \/ DispatchEnd \/ DispatchWake

SpecDispatch == Init /\ [][NextDispatch]_vars

\* The same with the exchanges seen piece by piece.  The event loop runs a
\* waiter that the release has woken, and on a POST in flight something
\* happens before a timeout of the client expires: a piece of the response
\* arrives, or the exchange ends (with the response, an error or the
\* timeout).
NextExchange == DispatchBegin \/ DispatchEnd \/ DispatchWake \/ DispatchData

SpecExchange ==
    /\ Init /\ [][NextExchange]_vars
    /\ WF_vars(DispatchWake)
    /\ WF_vars(DispatchEnd \/ DispatchData)

\* The exchanges of workers that all end.
SpecExchangeEnds == SpecExchange /\ WF_vars(DispatchEnd)

\* The product catalogue while administrators enable and disable workers.
NextCatalog == DoCreateProduct \/ DoUpdateProduct \/ UpdateWorker

SpecCatalog == Init /\ [][NextCatalog]_vars

\* Result callbacks that run concurrently, for workers with several sessions.
NextRace == UpdateWorkerCapacity \/ KeyedPurchase \/ QuietReport \/ BeginResult \/ FinishResult

SpecRace == Init /\ [][NextRace]_vars

\* Result callbacks while an administrator revokes tokens.
NextRevoke == SeedPurchase \/ ResultCallback \/ DoRevoke

SpecRevoke == Init /\ [][NextRevoke]_vars

\* Concurrent callers of the wallet service.
NextAdjust == BeginAdjust \/ SelectWallet \/ InsertWallet \/ WriteBalance \/ CommitAdjust

SpecAdjust == Init /\ [][NextAdjust]_vars

\* Concurrent purchases and the administration of the workers.
NextPurchases ==
    BeginPurchase \/ PurchaseDebit \/ PurchaseSelect \/ PurchaseDispatch \/ UpdateWorker

SpecPurchases == Init /\ [][NextPurchases]_vars

\* The event bus under arbitrary calls.
NextBus == BusSubscribe \/ BusPublish \/ BusUnsubscribe \/ BusGet

SpecBus == Init /\ [][NextBus]_vars

\* Streaming clients and the handlers that publish to them.
NextStream ==
    StreamOpen \/ StreamEmit \/ StreamTake \/ StreamPing \/ StreamClose \/ BusPublish

SpecStream == Init /\ [][NextStream]_vars

NextSupport ==
    \/ StreamOpen \/ StreamEmit \/ StreamTake \/ StreamPing \/ StreamClose \/ StreamDrop
    \/ PostThreadMessage

SpecSupport == Init /\ [][NextSupport]_vars

NextOrder == BusSubscribe \/ RecordedPublish \/ BusGet \/ BusUnsubscribe

SpecOrder == Init /\ [][NextOrder]_vars

\* Result callbacks that interleave at their publishes, with subscribers.
NextResults == SeedPurchase \/ ResultCommit \/ ResultPublish \/ BusSubscribe \/ BusGet

SpecResults == Init /\ [][NextResults]_vars

----------------------------------------------------------------------------
(* Properties *)

SessionsOf(u) == {i \in 1..Len(sessions) : sessions[i].user_id = u}

SessionsFor(u, k) == {i \in SessionsOf(u) : sessions[i].idempotency_key = k}

RECURSIVE SumPrices(_)
SumPrices(S) ==
    IF S = {} THEN 0
    ELSE LET i == CHOOSE i \in S : TRUE
         IN  Products[sessions[i].product_id].price_coins + SumPrices(S \ {i})

WorkerFailedRefunds(u) ==
    SelectSeq(ledger, LAMBDA e : e.user_id = u /\ e.meta = "worker_failed")

\* C1: once a session exists for (user, key), a purchase with that user and
\* key, for any product, returns that session as not newly created, sends no
\* job and leaves the database (so the wallet and the ledger) as it is; there
\* is at most one session per (user, key), and each user has paid the price
\* of each of their sessions exactly once: the balance is the initial coins
\* less the prices of the user's sessions plus the refunds of failed sessions.
C1_IdempotentPurchase ==
    /\ \A u \in Users, k \in Keys :
        /\ Cardinality(SessionsFor(u, k)) <= 1
        /\ SessionsFor(u, k) # {} =>
            \A p \in ProductIds, w \in WorkerIds, outcome \in DispatchOutcomes :
                LET o == Purchase(Cur, u, p, k, w, outcome)
                IN  /\ o.db = Cur
                    /\ o.resp.code = 200
                    /\ o.resp.sid \in SessionsFor(u, k)
                    /\ o.resp.created = FALSE
                    /\ o.posted = <<>>
    /\ \A u \in Users :
        GetBalance(Cur, u) =
            InitCoins[u] - SumPrices(SessionsOf(u)) + SumAmounts(WorkerFailedRefunds(u))

\* A retried purchase has been answered with the session of the first one.
C1_Witness ==
    /\ resp.op = "purchase" /\ resp.code = 200 /\ resp.created = FALSE
    /\ resp.sid \in 1..Len(sessions)
    /\ Len(sessions) = 2

\* C2 as stated: the stored balance is the sum of the user's ledger amounts
\* and is not negative.
C2_BalanceIsLedgerSum ==
    \A u \in DOMAIN wallet :
        wallet[u] = SumAmounts(EntriesOf(ledger, u)) /\ wallet[u] >= 0

\* C2, amended: the stored balance is the coins the wallet row was seeded
\* with plus the sum of the user's ledger amounts, and is not negative.
C2_BalanceIsSeedPlusLedgerSum ==
    \A u \in DOMAIN wallet :
        wallet[u] = InitCoins[u] + SumAmounts(EntriesOf(ledger, u)) /\ wallet[u] >= 0

\* A call has been rejected after two accepted ones for the same user.
C2_Witness ==
    /\ resp.op = "adjust" /\ resp.code = 400
    /\ \E u \in DOMAIN wallet : Len(EntriesOf(ledger, u)) >= 2

\* The accepted result callbacks: correctly signed, with a JSON body that
\* names an existing session.
AcceptedResult(req) ==
    /\ VerifyRequest(Cur, req).ok
    /\ JsonValid(req.body)
    /\ "session_id" \in DOMAIN JsonLoads(req.body)

\* C3: an accepted result callback with status failed for a provisioning
\* session with an owner and a product sets the session to failed, raises the
\* owner's balance by the product's price and appends one ledger entry, of
\* type vps.refund with the session's id as its reference.
C3_RefundOnFailure ==
    \A req \in GoodRequests("result") :
        LET payload == JsonLoads(req.body)
            sid == payload.session_id
            o == WorkerResult(Cur, req)
        IN  (/\ AcceptedResult(req)
             /\ Get(payload, "status") = "failed"
             /\ sid \in 1..Len(sessions)
             /\ sessions[sid].status = "provisioning"
             /\ sessions[sid].user_id # None
             /\ sessions[sid].product_id # None)
            => LET u == sessions[sid].user_id
                   price == Products[sessions[sid].product_id].price_coins
               IN  /\ o.resp.code = 200
                   /\ o.db.sessions[sid].status = "failed"
                   /\ GetBalance(o.db, u) = GetBalance(Cur, u) + price
                   /\ Len(o.db.ledger) = Len(ledger) + 1
                   /\ SubSeq(o.db.ledger, 1, Len(ledger)) = ledger
                   /\ LET e == o.db.ledger[Len(o.db.ledger)]
                      IN  /\ e.user_id = u /\ e.type = "vps.refund"
                          /\ e.amount = price /\ e.ref_id = sid

\* A provisioning session has failed and its owner has been refunded.
C3_Witness ==
    /\ resp.op = "result" /\ resp.code = 200
    /\ Len(sessions) = 1 /\ sessions[1].status = "failed" /\ sessions[1].rdp_host = None
    /\ Len(ledger) = 2 /\ ledger[2].type = "vps.refund" /\ ledger[2].ref_id = 1
    /\ GetBalance(Cur, sessions[1].user_id) = InitCoins[sessions[1].user_id]

\* The callbacks C4 is about.
LacksSignature(req) == req.sig = NoSignature
UnknownWorker(req) == req.wid \notin DOMAIN workers
StaleTimestamp(req) ==
    /\ req.ts # <<>>
    /\ \A i \in 1..Len(req.ts) : req.ts[i] \in DOMAIN DigitVal
    /\ \/ DecimalValue(req.ts) - req.now > CLOCK_SKEW_SECONDS
       \/ req.now - DecimalValue(req.ts) > CLOCK_SKEW_SECONDS
SignatureMismatch(req) ==
    /\ req.wid \in DOMAIN workers
    /\ workers[req.wid].token_id \in DOMAIN tokens
    /\ req.sig # Hmac(tokens[workers[req.wid].token_id].secret, req.body \o req.ts)

\* C4: a status, checklist or result callback without a signature header,
\* with an unknown worker id, with a timestamp more than 300 seconds from the
\* server clock or with a signature that does not match the received body is
\* rejected (401, or 400 when the worker id is no UUID or the timestamp no
\* number), leaves the database as it is and publishes no event.
C4_RejectedCallbackChangesNothing ==
    \A op \in CallbackOps : \A req \in Requests(op) :
        (LacksSignature(req) \/ UnknownWorker(req) \/ StaleTimestamp(req) \/ SignatureMismatch(req))
        => LET o == Handle(Cur, op, req)
           IN  /\ o.resp.code \in {400, 401}
               /\ o.db = Cur
               /\ o.published = <<>>
               /\ o.posted = <<>>

\* A result callback for an existing provisioning session has been rejected
\* for its signature.
C4_Witness ==
    /\ resp.op = "result" /\ resp.code = 401 /\ resp.detail = "Invalid signature"
    /\ Len(sessions) = 1 /\ sessions[1].status = "provisioning"

\* C5: a purchase for a new (user, key) that finds no eligible worker, or
\* whose dispatch does not end in a 2xx response, or whose debit is refused,
\* adds no session (so none of it is provisioning) and leaves every user's
\* balance as it was before.
C5_NoChargeWithoutDispatch ==
    \A u \in Users, p \in ProductIds, k \in Keys, w \in WorkerIds, outcome \in DispatchOutcomes :
        LET o == Purchase(Cur, u, p, k, w, outcome)
        IN  (/\ ExistingSession(Cur, u, k) = {}
             /\ \/ outcome # "2xx"
                \/ \A x \in Products[p].workers :
                     \/ workers[x].status # "active"
                     \/ ActiveSessionCount(Cur, x) >= workers[x].max_sessions
                \/ GetBalance(Cur, u) < Products[p].price_coins)
            => /\ o.resp.code # 200 /\ o.resp.created = FALSE
               /\ o.db.sessions = sessions
               /\ \A x \in Users : GetBalance(o.db, x) = GetBalance(Cur, x)

\* A purchase whose dispatch failed has been debited and refunded.
C5_Witness ==
    /\ resp.op = "purchase" /\ resp.detail = "DispatchFailed"
    /\ posted # <<>>
    /\ Len(ledger) >= 2
    /\ ledger[Len(ledger) - 1].type = "vps.purchase"
    /\ ledger[Len(ledger)].type = "vps.refund"
    /\ ledger[Len(ledger)].amount = -ledger[Len(ledger) - 1].amount

\* The workers that qualify for a product in the current state: assigned to
\* it, active, and with fewer sessions in pending, provisioning or ready than
\* max_sessions.
Qualifies(w, p) ==
    /\ w \in Products[p].workers
    /\ workers[w].status = "active"
    /\ Cardinality({i \in 1..Len(sessions) :
                       /\ sessions[i].worker_id = w
                       /\ sessions[i].status \in {"pending", "provisioning", "ready"}})
         < workers[w].max_sessions

C8_OneSessionPerKey ==
    \A u \in Users, k \in Keys : Cardinality(SessionsFor(u, k)) <= 1

\* The steps of a session's status that section 4.4 allows.
AllowedStep(from, to) ==
    \/ to = from
    \/ from = "pending" /\ to = "provisioning"
    \/ from = "provisioning" /\ to \in {"ready", "failed"}
    \/ from \in {"ready", "failed"} /\ to \in {"expired", "deleted"}

\* C9: the status of a session changes only along
\* pending -> provisioning -> {ready | failed} -> {expired | deleted}.
C9_StatusPath ==
    [][\A i \in 1..Len(sessions) :
          i \in 1..Len(sessions') => AllowedStep(sessions[i].status, sessions'[i].status)]_vars

\* C10: an accepted result callback whose status is neither ready nor failed
\* is answered with an error, 400 Invalid status when it names an existing
\* session, leaves the database as it is and publishes no event.
C10_InvalidStatusChangesNothing ==
    \A req \in Requests("result") :
        (AcceptedResult(req) /\ Get(JsonLoads(req.body), "status") \notin {"ready", "failed"})
        => LET o == WorkerResult(Cur, req)
           IN  /\ o.resp.code \in {400, 404, 500}
               /\ JsonLoads(req.body).session_id \in 1..Len(sessions)
                    => o.resp.code = 400 /\ o.resp.detail = "Invalid status"
               /\ o.db = Cur
               /\ o.published = <<>>
               /\ o.posted = <<>>

\* A result callback with another status has been rejected for a session that
\* was provisioning.
C10_Witness ==
    /\ resp.op = "result" /\ resp.code = 400 /\ resp.detail = "Invalid status"
    /\ \E i \in 1..Len(sessions) : sessions[i].status = "provisioning"

\* C11: an adjust_balance call whose amount would make the balance negative
\* raises "Insufficient balance" and leaves the balance, the coins of every
\* user and the ledger as they were, in the session of the call and, after
\* the caller's rollback, in the database.
C11_InsufficientBalanceChangesNothing ==
    /\ \A u \in Users, amount \in AdjustAmounts :
          LET r == AdjustBalance(Cur, u, amount, "debit.test", 0, None)
          IN  GetBalance(Cur, u) + amount < 0 =>
                  /\ ~r.ok
                  /\ r.balance = GetBalance(Cur, u)
                  /\ \A x \in Users : GetBalance(r.db, x) = GetBalance(Cur, x)
                  /\ r.db.coins = coins
                  /\ r.db.ledger = ledger
    /\ (resp.op = "adjust" /\ resp.code = 400) =>
          /\ resp.detail = "Insufficient balance"
          /\ \A u \in Users : GetBalance(Cur, u) >= 0

\* A debit of 2 has been refused for a user whose wallet holds less.
C11_Witness ==
    /\ resp.op = "adjust" /\ resp.code = 400 /\ resp.detail = "Insufficient balance"
    /\ \E u \in DOMAIN wallet : wallet[u] = resp.balance /\ wallet[u] < 2 /\ coins[u] = wallet[u]
    /\ ledger # <<>>

\* C12: each successful adjust_balance call appends exactly one ledger entry,
\* for the user of the call, with the requested amount and with the balance
\* the call stores and returns as its balance_after; and a step changes a
\* user's balance only together with appending such an entry.
C12_OneEntryPerAdjustment ==
    /\ [](\A u \in Users, amount \in AdjustAmounts :
            LET r == AdjustBalance(Cur, u, amount, "ads.reward", 0, None)
            IN  r.ok =>
                    /\ Len(r.db.ledger) = Len(ledger) + 1
                    /\ SubSeq(r.db.ledger, 1, Len(ledger)) = ledger
                    /\ LET e == r.db.ledger[Len(r.db.ledger)]
                       IN  /\ e.user_id = u /\ e.amount = amount
                           /\ e.balance_after = r.balance
                           /\ e.balance_after = r.db.wallet[u]
                           /\ e.balance_after = r.db.coins[u])
    /\ [][\A u \in Users :
            GetBalance([wallet |-> wallet', coins |-> coins'], u) # GetBalance(Cur, u) =>
                /\ Len(ledger') = Len(ledger) + 1
                /\ SubSeq(ledger', 1, Len(ledger)) = ledger
                /\ ledger'[Len(ledger')].user_id = u
                /\ ledger'[Len(ledger')].amount =
                      GetBalance([wallet |-> wallet', coins |-> coins'], u) - GetBalance(Cur, u)
                /\ ledger'[Len(ledger')].balance_after = wallet'[u]]_vars

\* A credit has been committed: the last ledger entry carries the balance the
\* call returned.
C12_Witness ==
    /\ resp.op = "adjust" /\ resp.code = 200
    /\ Len(ledger) >= 2
    /\ ledger[Len(ledger)].amount > 0
    /\ ledger[Len(ledger)].balance_after = resp.balance
    /\ wallet[ledger[Len(ledger)].user_id] = resp.balance

\* C13: a purchase for a new (user, key) whose product costs more than the
\* user's balance is answered 400 Insufficient balance, adds no session,
\* sends no job and leaves the database, balances and ledger included, as it
\* was.
C13_InsufficientFundsPurchase ==
    \A u \in Users, p \in ProductIds, k \in Keys, w \in WorkerIds, outcome \in DispatchOutcomes :
        (SessionsFor(u, k) = {} /\ Products[p].price_coins > GetBalance(Cur, u))
        => LET o == Purchase(Cur, u, p, k, w, outcome)
           IN  /\ o.resp.code = 400 /\ o.resp.detail = "Insufficient balance"
               /\ o.resp.created = FALSE
               /\ o.db.sessions = sessions
               /\ o.posted = <<>>
               /\ o.db.ledger = ledger
               /\ \A x \in Users : GetBalance(o.db, x) = GetBalance(Cur, x)

\* A purchase has been refused for its price after an earlier purchase went
\* through.
C13_Witness ==
    /\ resp.op = "purchase" /\ resp.code = 400 /\ resp.detail = "Insufficient balance"
    /\ posted = <<>>
    /\ Len(sessions) >= 1

\* C14: publish is defined for every state of the bus (it never waits for
\* room); every queue holds at most maxsize items; after publish, every
\* queue subscribed to the session ends with the published event, and a
\* queue that was full has lost its oldest item and nothing else.
C14_PublishKeepsQueuesBounded ==
    /\ \A q \in DOMAIN queues : Len(queues[q].items) <= queues[q].maxsize
    /\ \A sid \in StreamSessions, event \in Events :
          LET b == Publish(Bus, sid, event)
          IN  \A q \in subscribers[sid] :
                  /\ Len(b.queues[q].items) <= queues[q].maxsize
                  /\ b.queues[q].items # <<>>
                  /\ b.queues[q].items[Len(b.queues[q].items)] = event
                  /\ Len(queues[q].items) = queues[q].maxsize
                        => SubSeq(b.queues[q].items, 1, Len(b.queues[q].items) - 1)
                             = Tail(queues[q].items)
    /\ busop.op = "publish" =>
          \A q \in subscribers[busop.sid] :
              queues[q].items[Len(queues[q].items)] = busop.event

\* An event has just been published to a session with a subscriber whose
\* queue is full and ends with that event after an older, different one.
C14_Witness ==
    /\ busop.op = "publish"
    /\ \E q \in subscribers[busop.sid] :
          /\ Len(queues[q].items) = queues[q].maxsize
          /\ queues[q].items[Len(queues[q].items)] = busop.event
          /\ queues[q].items[1] # busop.event

\* C15: publish appends exactly one copy of the event to each queue that is
\* subscribed to the session at that moment, leaves every other queue and
\* the subscriptions as they are, changes nothing without a subscriber; and
\* a queue starts empty when it is subscribed, so it never holds an event
\* published earlier.
C15_PublishReachesItsSubscribersOnly ==
    /\ \A sid \in StreamSessions, event \in Events :
          LET b == Publish(Bus, sid, event)
          IN  /\ b.subscribers = subscribers
              /\ DOMAIN b.queues = DOMAIN queues
              /\ \A q \in DOMAIN queues :
                    IF q \in subscribers[sid]
                    THEN b.queues[q].items =
                            Append(IF Len(queues[q].items) >= queues[q].maxsize
                                   THEN Tail(queues[q].items) ELSE queues[q].items, event)
                    ELSE b.queues[q] = queues[q]
              /\ subscribers[sid] = {} => b = Bus
    /\ \A sid \in StreamSessions, q \in QueueIds \ DOMAIN queues :
          LET b == Subscribe(Bus, sid, q, MaxQueueItems)
          IN  /\ b.queues[q].items = <<>>
              /\ \A x \in DOMAIN queues : b.queues[x] = queues[x]
    /\ busop.op = "subscribe" => queues[busop.queue].items = <<>>

\* An event has just been published to a session with two subscribers, both
\* of which hold it, while the queue of the other session's subscriber, and
\* nothing else, stayed empty.
C15_Witness ==
    /\ busop.op = "publish"
    /\ Cardinality(subscribers[busop.sid]) = 2
    /\ \A q \in subscribers[busop.sid] : queues[q].items = <<busop.event>>
    /\ \E sid \in StreamSessions \ {busop.sid} :
          \E q \in subscribers[sid] : queues[q].items = <<>>

\* C16 as stated: after unsubscribe(session, queue), for any session and any
\* queue, the queue is not registered for the session, it is empty, and a
\* publish to any session puts nothing into it.
C16_UnsubscribedQueueIsEmpty ==
    \A sid \in StreamSessions, q \in DOMAIN queues :
        LET b == Unsubscribe(Bus, sid, q)
        IN  /\ q \notin b.subscribers[sid]
            /\ b.queues[q].items = <<>>
            /\ \A s2 \in StreamSessions, event \in Events :
                  Publish(b, s2, event).queues[q].items = <<>>

\* The events a stream has emitted after its first one, pings left out.
LiveEvents(emitted) == SelectSeq(Tail(emitted), LAMBDA e : e # Ping)

\* C17: the first thing a stream emits is the snapshot; nothing is taken
\* from the queue before it; everything emitted after it is a ping or a live
\* event, and the live events emitted are, in order, the items taken from the
\* queue (the last item taken may still be waiting to be emitted).
C17_SnapshotFirstThenLiveInOrder ==
    \A q \in DOMAIN streams :
        LET st == streams[q] IN
        /\ st.pc = "snapshot" => st.emitted = <<>> /\ st.taken = <<>>
        /\ st.emitted # <<>> =>
              /\ st.emitted[1] = Snapshot
              /\ \A i \in 2..Len(st.emitted) : st.emitted[i] # Snapshot
              /\ Len(LiveEvents(st.emitted)) <= Len(st.taken)
              /\ LiveEvents(st.emitted) = SubSeq(st.taken, 1, Len(LiveEvents(st.emitted)))
              /\ Len(st.taken) - Len(LiveEvents(st.emitted)) <= 1
              /\ st.pc = "wait" => Len(st.taken) = Len(LiveEvents(st.emitted))
        /\ st.emitted = <<>> => st.taken = <<>>

\* A stream has emitted the snapshot and then two different live events that
\* were published while it was open.
C17_Witness ==
    \E q \in DOMAIN streams :
        /\ Len(streams[q].emitted) = 3
        /\ streams[q].emitted[1] = Snapshot
        /\ streams[q].emitted[2] \in Events /\ streams[q].emitted[3] \in Events
        /\ streams[q].emitted[2] # streams[q].emitted[3]
        /\ streams[q].taken = Tail(streams[q].emitted)

----------------------------------------------------------------------------
\* C18: every result callback that is applied publishes two events, the
\* status.update with the status it committed first and the ready (for
\* ready) or failed (for failed) event second, each once; a callback
\* publishes only after its commit, its ready or failed event only after its
\* status.update, and no queue holds the ready or failed event of a callback
\* in front of that callback's status.update.
OutcomeEvents == {"ready", "failed"}

C18_StatusUpdateThenOutcomeAfterCommit ==
    /\ [](/\ \A i \in 1..Len(pending) :
              LET all == pending[i].sent \o pending[i].todo IN
              /\ Len(all) = 2
              /\ all[1].event = "status.update" /\ all[1].data \in OutcomeEvents
              /\ all[2].event = all[1].data
              /\ all[1].session_id = pending[i].sid /\ all[2].session_id = pending[i].sid
          /\ \A q \in DOMAIN queues : \A j \in 1..Len(queues[q].items) :
              LET item == queues[q].items[j] IN
              /\ item.callback \in 1..Len(pending)
              /\ \E n \in 1..Len(pending[item.callback].sent) :
                     item = PublishedBy(item.callback, pending[item.callback].sent[n])
              /\ item.event \in OutcomeEvents =>
                     \A k \in 1..Len(queues[q].items) :
                         /\ queues[q].items[k].callback = item.callback
                         /\ queues[q].items[k].event = "status.update"
                         => k < j)
    /\ [][/\ Len(pending') > Len(pending) =>
              LET new == pending'[Len(pending')] IN
              /\ new.sent = <<>>
              /\ new.todo[1].data = sessions'[new.sid].status
          /\ \A i \in 1..Len(pending) :
              pending'[i] # pending[i] =>
                  /\ pending'[i].sent = Append(pending[i].sent, Head(pending[i].todo))
                  /\ Head(pending[i].todo).event \in OutcomeEvents =>
                        /\ Len(pending[i].sent) = 1
                        /\ pending[i].sent[1].event = "status.update"
                  /\ UNCHANGED dbvars]_vars

\* A subscriber's queue holds the status.update of a callback followed by
\* that callback's ready or failed event, while a second callback that has
\* committed has published its status.update only.
C18_Witness ==
    /\ \E q \in DOMAIN queues :
          /\ Len(queues[q].items) = 2
          /\ queues[q].items[1].event = "status.update"
          /\ queues[q].items[2].event \in OutcomeEvents
          /\ queues[q].items[2].callback = queues[q].items[1].callback
    /\ \E i \in 1..Len(pending) : Len(pending[i].sent) = 1
----------------------------------------------------------------------------
\* The X-Timestamp header is a decimal numeral whose value is at most 300
\* away from the server clock.
WithinSkew(req) ==
    /\ req.ts # <<>>
    /\ \A i \in 1..Len(req.ts) : req.ts[i] \in DOMAIN DigitVal
    /\ DecimalValue(req.ts) - req.now <= CLOCK_SKEW_SECONDS
    /\ req.now - DecimalValue(req.ts) <= CLOCK_SKEW_SECONDS

\* The worker is known and its credential exists and is not revoked.
UsableCredential(w) ==
    /\ w \in DOMAIN workers
    /\ workers[w].token_id \in DOMAIN tokens
    /\ ~tokens[workers[w].token_id].revoked

\* C19: a callback of a known worker with a credential that is not revoked
\* and a correct signature passes the verification if and only if its
\* X-Timestamp value is at most 300 seconds from the server clock, in the
\* past or in the future.
C19_AcceptedIffWithinSkew ==
    \A op \in CallbackOps : \A req \in SkewRequests(op) :
        UsableCredential(req.wid) => (VerifyRequest(Cur, req).ok <=> WithinSkew(req))

\* The same for the callbacks whose X-Timestamp is a decimal numeral.
C19_NumeralTimestamps ==
    \A op \in CallbackOps : \A req \in SkewRequests(op) :
        UsableCredential(req.wid) /\ ParseTimestamp(req.ts).kind = "number"
        => (VerifyRequest(Cur, req).ok <=> WithinSkew(req))
----------------------------------------------------------------------------
\* The worker has no credential, or its credential is revoked or gone.
WithoutCredential(w) ==
    /\ w \in DOMAIN workers
    /\ \/ workers[w].token_id = None
       \/ workers[w].token_id \notin DOMAIN tokens
       \/ tokens[workers[w].token_id].revoked_at # NotRevoked

\* C20: every callback from a worker without a credential or with a revoked
\* one, also one with a fresh timestamp and signed with the secret the worker
\* was given, is rejected with 401, leaves the database as it is and
\* publishes nothing; a revoked credential stays revoked, and revoking it
\* again changes nothing and records nothing.
C20_RevokedCredentialRejected ==
    /\ [](/\ \A op \in CallbackOps : \A req \in Requests(op) :
              WithoutCredential(req.wid)
              => LET o == Handle(Cur, op, req)
                 IN  /\ o.resp.code = 401
                     /\ o.db = Cur
                     /\ o.published = <<>>
                     /\ o.posted = <<>>
          /\ \A t \in DOMAIN tokens, now \in RevokeClock :
              tokens[t].revoked_at # NotRevoked
              => LET o == RevokeToken(Cur, t, now)
                 IN  o.db = Cur /\ o.audit = <<>> /\ o.resp.code = 200)
    /\ [][\A t \in DOMAIN tokens :
              tokens[t].revoked_at # NotRevoked => t \in DOMAIN tokens' /\ tokens'[t] = tokens[t]]_vars

\* The credential of the worker of a provisioning session was revoked at an
\* earlier time than now, and the worker's result callback for the session,
\* fresh and signed with its secret, has been rejected.
C20_Witness ==
    /\ resp.op = "result" /\ resp.code = 401 /\ resp.detail = "Worker token revoked"
    /\ \E i \in 1..Len(sessions) :
          /\ sessions[i].status = "provisioning"
          /\ tokens[workers[sessions[i].worker_id].token_id].revoked_at = 1000
    /\ \E t \in DOMAIN tokens : tokens[t].revoked_at = NotRevoked

----------------------------------------------------------------------------
\* The list a checklist callback supplies.
SuppliedItems(req) ==
    IF "items" \in DOMAIN req.body[1] THEN req.body[1].items ELSE <<>>

\* C21: a checklist callback that is accepted changes the database in the
\* checklist of the session it names and in nothing else (no status, no
\* connection field, no worker, no wallet, no ledger entry): the checklist is
\* then the supplied list, in its order, or the empty list when none is
\* supplied; it publishes one event, checklist.update for that session with
\* the same list, and sends no job.
C21_ChecklistCallbackFrame ==
    \A req \in Requests("checklist") :
        LET o == WorkerChecklist(Cur, req) IN
        o.resp.code = 200
        => LET sid == req.body[1].session_id IN
           /\ sid \in 1..Len(sessions)
           /\ o.db.sessions[sid].checklist = SuppliedItems(req)
           /\ o.db = [Cur EXCEPT !.sessions[sid].checklist = o.db.sessions[sid].checklist]
           /\ o.published = <<[session_id |-> sid, event |-> "checklist.update",
                                data |-> SuppliedItems(req)]>>
           /\ o.posted = <<>>

\* A checklist callback with two items has been accepted for a session that
\* is no longer provisioning.
C21_Witness ==
    /\ resp.op = "checklist" /\ resp.code = 200
    /\ Len(published) = 1 /\ published[1].event = "checklist.update"
    /\ published[1].data = <<"b", "a">>
    /\ sessions[published[1].session_id].checklist = <<"b", "a">>
    /\ sessions[published[1].session_id].status = "ready"

----------------------------------------------------------------------------
\* The job count a status callback reports: the payload's current_jobs, the
\* worker's stored counter when the payload has none.
ReportedJobs(req) ==
    IF "current_jobs" \in DOMAIN req.body[1] THEN req.body[1].current_jobs
    ELSE workers[req.wid].current_jobs

\* C22: a status callback that is accepted changes the database in the
\* calling worker's row only: its job counter becomes the reported value and
\* its status busy when that value is greater than zero, idle otherwise; no
\* session, wallet or ledger entry changes, no event is published and no job
\* is sent.
C22_StatusCallbackFrame ==
    \A req \in Requests("status") \cup CounterRequests :
        LET o == WorkerStatus(Cur, req) IN
        o.resp.code = 200
        => /\ o.db = [Cur EXCEPT !.workers[req.wid].current_jobs = ReportedJobs(req),
                                  !.workers[req.wid].status =
                                      IF ReportedJobs(req) > 0 THEN "busy" ELSE "idle"]
           /\ o.published = <<>>
           /\ o.posted = <<>>

\* A worker with a provisioning session has reported a positive job count
\* and is busy, while the other worker has reported none and is idle.
C22_Witness ==
    /\ resp.op = "status" /\ resp.code = 200
    /\ \E w \in DOMAIN workers :
          /\ workers[w].current_jobs = MaxJobs /\ workers[w].status = "busy"
          /\ \E i \in 1..Len(sessions) :
                sessions[i].worker_id = w /\ sessions[i].status = "provisioning"
    /\ \E w \in DOMAIN workers : workers[w].current_jobs = 0 /\ workers[w].status = "idle"

----------------------------------------------------------------------------
\* The counter one lower, but not below zero.
LoweredByOne(n) == IF n = 0 THEN 0 ELSE n - 1

\* C23: no worker's job counter is negative; a ready or failed result
\* callback that is accepted leaves the calling worker's counter one lower
\* than it was, or at zero when it was zero, and the worker busy exactly when
\* the counter is then greater than zero.
C23_CounterNeverNegative ==
    /\ \A w \in DOMAIN workers : workers[w].current_jobs >= 0
    /\ \A req \in GoodRequests("result") :
          LET o == WorkerResult(Cur, req) IN
          o.resp.code = 200
          => /\ o.db.workers[req.wid].current_jobs = LoweredByOne(workers[req.wid].current_jobs)
             /\ o.db.workers[req.wid].status = "busy" <=> o.db.workers[req.wid].current_jobs > 0
             /\ o.db.workers[req.wid].status \in {"busy", "idle"}

\* The same for the result callbacks alone: the states in which the counter
\* of the calling worker is not negative.
C23_ResultLowersCounter ==
    \A req \in GoodRequests("result") :
        LET o == WorkerResult(Cur, req) IN
        o.resp.code = 200 /\ workers[req.wid].current_jobs >= 0
        => /\ o.db.workers[req.wid].current_jobs = LoweredByOne(workers[req.wid].current_jobs)
           /\ o.db.workers[req.wid].current_jobs >= 0
           /\ o.db.workers[req.wid].status = "busy" <=> o.db.workers[req.wid].current_jobs > 0

----------------------------------------------------------------------------
\* The requests that end in this step.
Finishing == DOMAIN tx \ DOMAIN tx'

\* C24: every result callback that is applied, whichever other result
\* callbacks run between its start and its commit, leaves the worker's
\* counter, when that is not negative, one lower than it was just before the
\* commit (or at zero): of two concurrent callbacks of a worker with a
\* counter n >= 2 neither decrement is lost, the counter ends at n - 2.
C24_NoDecrementLost ==
    [][\A c \in Finishing :
          /\ resp'.op = "result" /\ resp'.code = 200
          /\ workers[tx[c].req.wid].current_jobs >= 0
          => workers'[tx[c].req.wid].current_jobs
                = LoweredByOne(workers[tx[c].req.wid].current_jobs)]_vars

\* Two result callbacks for the two provisioning sessions of a worker have
\* both been applied, and the worker's counter, 2 when they started, is 1.
C24_LostDecrement ==
    /\ tx = <<>>
    /\ Len(sessions) = 2
    /\ sessions[1].worker_id = sessions[2].worker_id
    /\ sessions[1].status = "ready" /\ sessions[2].status = "ready"
    /\ workers[sessions[1].worker_id].current_jobs = 1
    /\ resp.op = "result" /\ resp.code = 200

----------------------------------------------------------------------------
\* The key of the row the next register_worker inserts.
NextWorkerId ==
    NewWorkerOrder[Cardinality(DOMAIN workers) - Cardinality(DOMAIN InitWorkers) + 1]

\* C25: register_worker creates a worker only after the health probe of the
\* base URL has returned success: with a probe that fails (a network error,
\* a timeout, a response that is no success) or a base URL that is empty the
\* call fails with 400 and the database is as it was; with a successful
\* probe the database has exactly one more worker, with status active, the
\* given max_sessions and no active session, every other row as it was, and
\* the probe went to the normalised base URL's /health.
C25_RegisterOnlyAfterProbe ==
    Cardinality(DOMAIN workers) < Cardinality(DOMAIN InitWorkers) + Len(NewWorkerOrder)
    => \A base_url \in BaseUrls, max_sessions \in 1..MaxSessions, probe \in ProbeOutcomes :
        LET o == RegisterWorker(Cur, base_url, max_sessions, probe, NextWorkerId) IN
        IF probe = "2xx" /\ \E i \in 1..Len(base_url) : base_url[i] # " "
        THEN /\ o.resp.code = 200
             /\ DOMAIN o.db.workers = DOMAIN workers \cup {NextWorkerId}
             /\ NextWorkerId \notin DOMAIN workers
             /\ \A w \in DOMAIN workers : o.db.workers[w] = workers[w]
             /\ o.db.workers[NextWorkerId].status = "active"
             /\ o.db.workers[NextWorkerId].max_sessions = max_sessions
             /\ ActiveSessionCount(o.db, NextWorkerId) = 0
             /\ [o.db EXCEPT !.workers = workers] = Cur
             /\ Len(o.probed) = 1
        ELSE /\ o.resp.code = 400
             /\ o.db = Cur

\* A registration has failed at its probe after an earlier one succeeded,
\* and the only registered worker is the earlier one.
C25_Witness ==
    /\ resp.op = "register" /\ resp.code = 400 /\ resp.detail = "Worker health check failed"
    /\ DOMAIN workers = DOMAIN InitWorkers \cup {NewWorkerOrder[1]}
    /\ workers[NewWorkerOrder[1]].status = "active"
    /\ workers[NewWorkerOrder[1]].max_sessions = MaxSessions

----------------------------------------------------------------------------
\* The statuses of a session row.
SessionStatuses == {"pending", "provisioning", "ready", "failed", "expired", "deleted"}

\* The number of the rows of s that are assigned to w and pending,
\* provisioning or ready, counted row by row.
RECURSIVE CountActive(_, _)
CountActive(s, w) ==
    IF s = <<>> THEN 0
    ELSE CountActive(Tail(s), w)
         + (IF Head(s).worker_id = w /\ Head(s).status \in {"pending", "provisioning", "ready"}
            THEN 1 ELSE 0)

\* C26: for every worker, and whatever status each session row has, the
\* active-session count is the number of the sessions assigned to the worker
\* that are pending, provisioning or ready (zero without any); it is the
\* same for every value of the worker's job counter; a result callback that
\* makes a provisioning session failed lowers the count of the session's
\* worker by one, one that makes it ready leaves the count as it is.
C26_ActiveCountFromSessions ==
    /\ [](\A w \in DOMAIN workers :
            /\ ActiveSessionCount(Cur, w) = CountActive(sessions, w)
            /\ \A i \in 1..Len(sessions), st \in SessionStatuses :
                  ActiveSessionCount([Cur EXCEPT !.sessions[i].status = st], w)
                     = CountActive([sessions EXCEPT ![i].status = st], w)
            /\ \A n \in -1..MaxJobs :
                  ActiveSessionCount([Cur EXCEPT !.workers[w].current_jobs = n], w)
                     = ActiveSessionCount(Cur, w))
    /\ [][\A i \in 1..Len(sessions) :
            sessions[i].status = "provisioning" /\ sessions'[i].status # "provisioning"
            => /\ sessions'[i].status = "failed"
                  => ActiveSessionCount(Cur', sessions[i].worker_id)
                        = ActiveSessionCount(Cur, sessions[i].worker_id) - 1
               /\ sessions'[i].status = "ready"
                  => ActiveSessionCount(Cur', sessions[i].worker_id)
                        = ActiveSessionCount(Cur, sessions[i].worker_id)]_vars

\* A worker has a failed and a ready session and a job counter that differs
\* from its active-session count of one.
C26_Witness ==
    \E w \in DOMAIN workers :
        /\ \E i, j \in 1..Len(sessions) :
              /\ sessions[i].worker_id = w /\ sessions[i].status = "failed"
              /\ sessions[j].worker_id = w /\ sessions[j].status = "ready"
        /\ ActiveSessionCount(Cur, w) = 1
        /\ workers[w].current_jobs = MaxJobs


\* A worker list that names a worker with no row or a worker whose status is
\* not active.
NotAssignable(l) == \E w \in l : w \notin DOMAIN workers \/ workers[w].status # "active"

FreshProductId == IF NextProductId # None THEN NextProductId ELSE "p4"

\* C27: create_product and update_product accept a worker list only if every
\* listed worker exists and has status active.  If a listed worker is unknown
\* or not active the call fails with an error, no product is created, and the
\* stored pool and the other stored fields of an existing product stay as
\* they were; an accepted list becomes the product's pool.
C27_ProductWorkersMustBeActive ==
    /\ \A price \in PriceInputs, l \in WorkerLists :
          LET o == CreateProduct(Cur, price, l, FreshProductId)
          IN /\ o.resp.code = 200 =>
                    /\ ~NotAssignable(l)
                    /\ DOMAIN o.db.products = DOMAIN products \cup {FreshProductId}
                    /\ o.db.products[FreshProductId].workers = l
             /\ NotAssignable(l) => o.resp.code = 400 /\ o.db = Cur
    /\ \A p \in CatalogIds, price \in OptionalPrices, l \in WorkerLists :
          LET o == UpdateProduct(Cur, p, price, Given(l))
          IN /\ o.resp.code = 200 =>
                    /\ ~NotAssignable(l)
                    /\ o.db.products[p].workers = l
             /\ NotAssignable(l) => o.resp.code \in {400, 404} /\ o.db = Cur

\* An update of a created product was refused because of a disabled worker
\* that the product's stored pool still holds from before it was disabled.
C27_Witness ==
    /\ resp.op = "product.update"
    /\ resp.code = 400
    /\ resp.detail = "Inactive workers"
    /\ "p3" \in DOMAIN products
    /\ \E w \in products["p3"].workers : workers[w].status = "disabled"


\* The calls whose POST has been sent and has not come back.
InFlight == {c \in DOMAIN dispatcher.calls : dispatcher.calls[c].pc = "posting"}

\* C28: at most one job-creation POST of a dispatcher is in flight at any
\* time; a call that waits has sent nothing, a call that posts or has finished
\* has sent exactly one POST, to /job/create of its own worker, and calls get
\* the lock in the order they asked for it.
C28_OnePostInFlight ==
    /\ [](/\ Cardinality(InFlight) <= 1
          /\ InFlight # {} => dispatcher.locked
          /\ \A c \in DOMAIN dispatcher.calls :
                LET call == dispatcher.calls[c]
                IN IF call.pc = "waiting"
                   THEN call.posts = <<>>
                   ELSE call.posts = <<JobCreateUrl(DispatchBaseUrl[call.worker])>>)
    /\ [][\A c \in InFlight' \ InFlight :
              c \in DOMAIN dispatcher.calls => c = Head(dispatcher.waiters)]_vars

\* One call is posting to w2, whose base URL ends in slashes, while another
\* waits and a third has already returned.
C28_Witness ==
    \E c, e, f \in DOMAIN dispatcher.calls :
        /\ dispatcher.calls[c].pc = "posting"
        /\ dispatcher.calls[c].worker = "w2"
        /\ dispatcher.calls[c].posts = <<<<"g", "/job/create">>>>
        /\ dispatcher.calls[e].pc = "waiting"
        /\ dispatcher.calls[f].pc = "returned"


\* The body of a callback is no JSON document, has no session_id (or a falsy
\* one), or has a session_id that is no UUID.
MalformedBody(req) ==
    \/ Len(req.body) # 1
    \/ "session_id" \notin DOMAIN req.body[1]
    \/ req.body[1].session_id <= 0

\* A well-formed body that names a session with no row.
UnknownSession(req) == ~MalformedBody(req) /\ req.body[1].session_id > Len(sessions)

SessionCallbacks == {"checklist", "result"}

\* C29: a correctly signed checklist or result callback with a malformed body
\* or an unknown session gets an error response, leaves the database as it
\* was and publishes nothing; after such a response a well-formed checklist
\* callback for an existing session is still accepted.
C29_MalformedCallbackRejected ==
    /\ \A op \in SessionCallbacks : \A req \in Requests(op) :
          VerifyRequest(Cur, req).ok /\ (MalformedBody(req) \/ UnknownSession(req)) =>
              LET o == Handle(Cur, op, req)
              IN /\ o.resp.code \in {400, 404, 500}
                 /\ o.db = Cur
                 /\ o.published = <<>>
    /\ resp.op \in SessionCallbacks /\ resp.code \in {400, 404, 500} =>
          \A req \in GoodRequests("checklist") :
              ~MalformedBody(req) /\ ~UnknownSession(req) =>
                  Handle(Cur, "checklist", req).resp.code = 200

\* A result callback whose body is no JSON was answered with the generic
\* failure while the session it would have finished is still provisioning
\* and holds the checklist an earlier callback stored.
C29_Witness ==
    /\ resp.op = "result"
    /\ resp.code = 500
    /\ Len(sessions) = 1
    /\ sessions[1].status = "provisioning"
    /\ sessions[1].checklist = <<"a", "b">>


\* A nonce is consumed successfully at most once, and a nonce that was never
\* issued is refused.
C30_AtMostOneSuccess ==
    /\ \A n \in DOMAIN ads.wins : ads.wins[n] <= 1
    /\ ads.last.op = "consume" /\ ads.last.nonce \notin DOMAIN ads.issued =>
          ~ads.last.ok /\ ads.last.error = "Unknown nonce"

\* C30: a nonce issued to a user is consumed successfully at most once: the
\* user's first consume before the expiry (no call of Redis having raised)
\* returns the device hash and the placement given at issue, every later
\* consume of the nonce fails, and so does the consume of a nonce that was
\* never issued.
C30_NonceConsumedOnce ==
    /\ C30_AtMostOneSuccess
    /\ ads.last.op = "consume" /\ ads.last.first /\ ~ads.faulted =>
          /\ ads.last.ok
          /\ ads.last.device_hash = ads.issued[ads.last.nonce].device
          /\ ads.last.placement = ads.issued[ads.last.nonce].placement

\* The owner's first consume, before the expiry and with no Redis client,
\* is refused as unknown: an earlier call has taken the record away.
C30_BurntNonce ==
    /\ ~ads.redis
    /\ ads.last.op = "consume"
    /\ ads.last.first
    /\ ~ads.last.ok
    /\ ads.last.error = "Unknown nonce"

\* C31: after a successful adjust_balance the user's coins field equals the
\* wallet balance and get_balance returns that value; without a wallet row
\* get_balance returns the user's coins, and the first adjust_balance starts
\* from them.
C31_CoinsFollowWallet ==
    /\ \A u \in Users :
          IF u \in DOMAIN wallet
          THEN coins[u] = wallet[u] /\ GetBalance(Cur, u) = wallet[u]
          ELSE GetBalance(Cur, u) = coins[u]
    /\ \A u \in Users, amount \in AdjustAmounts :
          LET r == AdjustBalance(Cur, u, amount, "ads.reward", 0, None)
              start == IF u \in DOMAIN wallet THEN wallet[u] ELSE coins[u]
          IN r.ok => /\ r.balance = start + amount
                     /\ u \in DOMAIN r.db.wallet
                     /\ r.db.wallet[u] = r.balance
                     /\ r.db.coins[u] = r.balance
                     /\ GetBalance(r.db, u) = r.balance

\* u1 has been adjusted away from the coins it started with, u2 has no
\* wallet row yet.
C31_Witness ==
    /\ resp.op = "adjust" /\ resp.code = 200
    /\ "u1" \in DOMAIN wallet /\ wallet["u1"] # InitCoins["u1"]
    /\ "u2" \notin DOMAIN wallet
    /\ Len(ledger) >= 2

\* The refund entries of the ledger that reference a session.
SessionRefunds(sid) ==
    SelectSeq(ledger, LAMBDA e : e.type = "vps.refund" /\ e.ref_id = sid)

\* C32: over any sequence of accepted result callbacks the owner of a session
\* is refunded at most once: at most one refund entry references the session
\* and the refunds of a session never add up to more than its price.
C32_RefundAtMostOnce ==
    \A sid \in 1..Len(sessions) :
        /\ Len(SessionRefunds(sid)) <= 1
        /\ SumAmounts(SessionRefunds(sid)) <= Products[sessions[sid].product_id].price_coins

\* A failed result was replayed: the session's owner holds more coins than
\* before the purchase.
C32_DoubleRefund ==
    /\ resp.op = "result" /\ resp.code = 200
    /\ Len(sessions) = 1 /\ sessions[1].status = "failed"
    /\ Len(SessionRefunds(1)) = 2
    /\ GetBalance(Cur, sessions[1].user_id) =
          InitCoins[sessions[1].user_id] + Products[sessions[1].product_id].price_coins

\* The session a well-formed checklist or result callback names.
NamedSession(req) == req.body[1].session_id

\* A callback that is accepted, names an existing session and is signed by a
\* registered worker other than the one the session is assigned to.
FromAnotherWorker(req) ==
    /\ VerifyRequest(Cur, req).ok
    /\ Len(req.body) = 1
    /\ "session_id" \in DOMAIN req.body[1]
    /\ NamedSession(req) \in 1..Len(sessions)
    /\ sessions[NamedSession(req)].worker_id # req.wid

\* C33: a checklist or result callback that is correctly signed by a worker
\* other than the session's assigned worker leaves the session, the wallets
\* and the ledger, and the assigned worker's row as they are.
C33_OnlyAssignedWorkerChangesSession ==
    \A op \in {"checklist", "result"} : \A req \in GoodRequests(op) :
        FromAnotherWorker(req) =>
            LET o == Handle(Cur, op, req)
                sid == NamedSession(req)
                assigned == sessions[sid].worker_id
            IN /\ o.db.sessions[sid] = sessions[sid]
               /\ o.db.wallet = wallet /\ o.db.coins = coins /\ o.db.ledger = ledger
               /\ o.db.workers[assigned] = workers[assigned]

\* Session 1 of worker w1 was failed and refunded by a result callback of w2
\* while w1 still counts it as a running job.
C33_ForeignResult ==
    /\ resp.op = "result" /\ resp.code = 200
    /\ Len(sessions) = 1 /\ sessions[1].worker_id = "w1" /\ sessions[1].status = "failed"
    /\ workers["w1"].status = "active"
    /\ workers["w2"].status = "idle"
    /\ Len(SessionRefunds(1)) = 1

\* The workers that are active in d are active in e.
StaysActive(d, e) ==
    \A w \in DOMAIN d.workers :
        d.workers[w].status = "active" => w \in DOMAIN e.workers /\ e.workers[w].status = "active"

\* C34: an accepted status or result callback, and a registration, leave
\* every active worker active, so that it can still be assigned to products
\* and selected for dispatch.
C34_CallbacksKeepWorkersActive ==
    /\ \A op \in {"status", "result"} : \A req \in GoodRequests(op) :
          LET o == Handle(Cur, op, req)
          IN o.resp.code = 200 => StaysActive(Cur, o.db)
    /\ \A base_url \in BaseUrls, max_sessions \in 1..MaxSessions, probe \in ProbeOutcomes :
          StaysActive(Cur, RegisterWorker(Cur, base_url, max_sessions, probe, "w4").db)

\* After the failed result of its only session w1 has no session left and is
\* marked idle: it is not selected for p1 and is refused as a product's worker.
C34_IdleWorkerNotEligible ==
    /\ resp.op = "result" /\ resp.code = 200
    /\ workers["w1"].status = "idle"
    /\ ActiveSessionCount(Cur, "w1") = 0
    /\ "w1" \notin EligibleWorkers(Cur, "p1")
    /\ ~ResolveWorkers(Cur, {"w1"}).ok

----------------------------------------------------------------------------
\* The publish calls of a stream's thread that were made while its queue was
\* subscribed, and the events of these calls.
Since(q) == SelectSeq(support.log[streams[q].sid], LAMBDA e : q \in e.subs)

EventsOf(entries) == [i \in 1..Len(entries) |-> entries[i].event]

Overflows(q) == Len(SelectSeq(Since(q), LAMBDA e : q \in e.full))

RECURSIVE IsSubSeq(_, _)
IsSubSeq(s, t) ==
    IF s = <<>> THEN TRUE
    ELSE IF t = <<>> THEN FALSE
    ELSE IF Head(s) = Head(t) THEN IsSubSeq(Tail(s), Tail(t))
    ELSE IsSubSeq(s, Tail(t))

\* C35: an open stream misses nothing.  Every message committed to its
\* thread is in the snapshot it shows or its event was published to the
\* stream's queue, and the thread's status is the one shown or the one of a
\* status event published to the queue; the events taken from the queue
\* followed by those still in it are, in publish order, the events published
\* to the queue less one per publish that found the queue full, and all of
\* them when no publish found it full.
C35_StreamMissesNoEvent ==
    \A q \in DOMAIN streams :
        LET st == streams[q]
            thread == support.threads[st.sid]
            since == EventsOf(Since(q))
            received == st.taken \o queues[q].items
        IN  st.pc # "closed" =>
            /\ \A i \in 1..Len(thread.messages) :
                  \/ \E j \in 1..Len(st.shown.messages) : st.shown.messages[j] = thread.messages[i]
                  \/ \E j \in 1..Len(since) : since[j] = MessageEvent(thread.messages[i])
            /\ \/ st.shown.status = thread.status
               \/ \E j \in 1..Len(since) :
                     /\ since[j].event = "thread.status"
                     /\ since[j].data.status = thread.status
            /\ IsSubSeq(received, since)
            /\ Len(received) + Overflows(q) = Len(since)
            /\ Overflows(q) = 0 => received = since

\* A stream opened on a thread that had one message has shown it in the
\* snapshot and has then forwarded the event of a message posted afterwards.
C35_Witness ==
    \E q \in DOMAIN streams :
        /\ streams[q].shown.messages = <<"m1">>
        /\ Len(streams[q].emitted) >= 2
        /\ streams[q].pc = "wait"
        /\ streams[q].taken # <<>>
        /\ streams[q].taken[1] = MessageEvent("m2")

\* A publish found the queue of an open stream full.
C35_WitnessOverflow ==
    \E q \in DOMAIN streams : streams[q].pc # "closed" /\ Overflows(q) > 0

----------------------------------------------------------------------------
\* Bodies and X-Timestamp headers that differ in where the body ends and the
\* timestamp begins.
SplitBodies == {<<BaseDoc("status")>>, <<BaseDoc("status"), "1">>, <<OtherDoc("status")>>}

SplitTimestamps == {Timestamp(1000), <<"0", "0", "0">>, Timestamp(999)}

\* The secret the signature of a worker's callback is verified with.
SecretOf(w) == tokens[workers[w].token_id].secret

\* C36: a signature computed with a worker's secret for one body and one
\* timestamp passes verify_worker_signature only with that body and that
\* timestamp.
C36_SignatureBindsBodyAndTimestamp ==
    \A w \in DOMAIN workers :
        workers[w].token_id \in DOMAIN tokens =>
            \A body \in SplitBodies, ts \in SplitTimestamps :
                \A body2 \in SplitBodies, ts2 \in SplitTimestamps :
                    VerifyWorkerSignature(SecretOf(w), body2, ts2,
                                          ComputeWorkerSignature(SecretOf(w), body, ts))
                        => body2 = body /\ ts2 = ts

\* The same for the whole of _verify_request: it accepts no callback whose
\* signature was computed for another body and another timestamp.
C36_NoForgedCallbackAccepted ==
    \A w \in DOMAIN workers :
        workers[w].token_id \in DOMAIN tokens =>
            \A body \in SplitBodies, ts \in SplitTimestamps :
                \A body2 \in SplitBodies, ts2 \in SplitTimestamps :
                    LET req == [wid |-> w, ts |-> ts2, body |-> body2, now |-> 1000,
                                sig |-> ComputeWorkerSignature(SecretOf(w), body, ts)]
                    IN  VerifyRequest(Cur, req).ok => body2 = body /\ ts2 = ts

----------------------------------------------------------------------------
\* The events published for a session while a queue was subscribed to it.
PublishedTo(sid, q) == EventsOf(SelectSeq(support.log[sid], LAMBDA e : q \in e.subs))

IsSuffix(s, t) == Len(s) <= Len(t) /\ s = SubSeq(t, Len(t) - Len(s) + 1, Len(t))

Position(s, x) == CHOOSE i \in 1..Len(s) : s[i] = x

Holds(s, x) == \E i \in 1..Len(s) : s[i] = x

RecordedEvents == {EventOrder[i] : i \in 1..Len(EventOrder)}

\* C37: the queue of every subscriber holds a most recent part, unbroken and
\* in publish order, of the events published for its session since it
\* subscribed, and two events that two subscribers of a session both hold
\* are in the same order in both queues.
C37_QueueIsRecentPartInOrder ==
    \A sid \in StreamSessions :
        /\ \A q \in subscribers[sid] : IsSuffix(queues[q].items, PublishedTo(sid, q))
        /\ \A q1 \in subscribers[sid], q2 \in subscribers[sid] :
              \A a \in RecordedEvents, b \in RecordedEvents :
                  (/\ Holds(queues[q1].items, a) /\ Holds(queues[q1].items, b)
                   /\ Holds(queues[q2].items, a) /\ Holds(queues[q2].items, b)
                   /\ Position(queues[q1].items, a) < Position(queues[q1].items, b))
                      => Position(queues[q2].items, a) < Position(queues[q2].items, b)

\* Three events were published for a session: the queue of the subscriber
\* that was there from the start is full and has lost the oldest, and a
\* subscriber that came later holds the newest only.
C37_Witness ==
    \E sid \in StreamSessions : \E q1 \in subscribers[sid], q2 \in subscribers[sid] :
        /\ PublishedTo(sid, q1) = <<"e1", "e2", "e3">>
        /\ queues[q1].items = <<"e2", "e3">>
        /\ queues[q2].items = <<"e3">>

----------------------------------------------------------------------------
\* C38: the queue of every stream that has ended is unsubscribed and
\* empty, and when no stream of a thread is left open the bus has no
\* subscriber entry for the thread.
C38_EndedStreamsUnsubscribed ==
    /\ \A q \in DOMAIN streams :
          streams[q].pc = "closed" =>
              /\ q \notin subscribers[streams[q].sid]
              /\ queues[q].items = <<>>
    /\ \A sid \in StreamSessions :
          (\A q \in DOMAIN streams : streams[q].sid = sid => streams[q].pc = "closed")
              => subscribers[sid] = {}

\* The same for the streams that ended after their generator had started.
C38_StartedStreamsUnsubscribed ==
    \A q \in DOMAIN streams :
        (streams[q].pc = "closed" /\ streams[q].emitted # <<>>) =>
            /\ q \notin subscribers[streams[q].sid]
            /\ queues[q].items = <<>>
            /\ subscribers[streams[q].sid] = {}

\* A stream has ended and its queue is still subscribed and has collected
\* events published afterwards.
C38_LeakedQueue ==
    \E q \in DOMAIN streams :
        /\ streams[q].pc = "closed"
        /\ q \in subscribers[streams[q].sid]
        /\ queues[q].items # <<>>

----------------------------------------------------------------------------
\* C39: every dispatch_job call that waits for the dispatcher's lock
\* eventually gets it and sends its request.
C39_WaitingCallsEventuallyPost ==
    \A c \in DispatchCalls :
        (c \in DOMAIN dispatcher.calls /\ dispatcher.calls[c].pc = "waiting")
            ~> (c \in DOMAIN dispatcher.calls /\ dispatcher.calls[c].pc # "waiting")

\* The end of a POST, with a response or with an error, releases the lock.
C39_EndOfPostReleasesLock ==
    [][\A c \in DOMAIN dispatcher.calls :
          (dispatcher.calls[c].pc = "posting" /\ dispatcher'.calls[c].pc \in {"returned", "raised"})
              => ~dispatcher'.locked]_vars

\* Calls wait while the call that holds the lock has failed to finish.
C39_WaitingBehindPost ==
    \E c, e \in DOMAIN dispatcher.calls :
        /\ dispatcher.calls[c].pc = "posting"
        /\ dispatcher.calls[e].pc = "waiting"
        /\ \E f \in DOMAIN dispatcher.calls : dispatcher.calls[f].pc = "raised"

====
